---- MODULE Spec2Model ----
(***************************************************************************)
(* Webhook / collection reconciliation pipeline of the goal-savings        *)
(* backend: status state machine (collections/idempotency.py), the         *)
(* collection service update paths (collections/services.py) and the       *)
(* webhook ingestion service (webhooks/services.py, webhooks/tasks.py).    *)
(*                                                                         *)
(* One Collection (request_ref "r1") with its DEBIT and FEE Transaction    *)
(* rows, the WebhookEvent table, the task queue and the request/worker     *)
(* processes are the state.  None is written "NULL"; a Transaction row     *)
(* that does not exist has status "none".                                  *)
(*                                                                         *)
(* Modelling decisions:                                                    *)
(*  - Collection.metadata is a persisted JSON field, as the service and    *)
(*    the serializers use it; of it only needs_validation is kept.         *)
(*  - The database is PostgreSQL at READ COMMITTED (settings/base.py): a   *)
(*    transaction.atomic block reads committed rows statement by           *)
(*    statement and its writes become visible together at commit, so a     *)
(*    handler is a read step followed by one atomic write step.            *)
(*  - The task queue delivers at least once.                               *)
(*  - Redis drops a lock key when its expiry has elapsed; time advances    *)
(*    by wait_timeout or timeout seconds at a step, the two durations the  *)
(*    lock compares against.                                               *)
(*  - HMAC-SHA256 digests of distinct (key, body) pairs are distinct.      *)
(***************************************************************************)
EXTENDS Integers, Sequences, FiniteSets, TLC

VARIABLES
    fn,         \* inputs and result of one should_update evaluation
    px,         \* payload, provider and results of one run of the extractors
    cc,         \* Collection rows of create_collection calls with idempotency keys
    coll,       \* the Collection row
    txns,       \* status of the DEBIT and FEE Transaction rows
    last,       \* record of the last service call (history)
    nCalls,     \* number of service calls made so far
    events,     \* WebhookEvent table, in insertion order
    queue,      \* task queue: ids of events with an unacknowledged task
    procs,      \* per process: position and locals of the running call
    clock,      \* timezone.now(), advanced at every processed_at write
    celery,     \* whether the Celery task module imports (deployment)
    delivered,  \* payloads handed to receive_event so far (history)
    taskRuns,   \* number of task executions started so far
    dispatched, \* per event row: how often processing was dispatched
    coll0,      \* Collection row at the start (history)
    txns0,      \* Transaction rows at the start (history)
    redis,      \* the lock key "lock:webhook_processing:r1" in Redis
    now,        \* time.time() in seconds
    lk,         \* per process: its ProcessingLock object and call history
    tx,         \* the open database transaction of a service call
    webhook_secret, \* settings.PWA_WEBHOOK_SECRET
    rcv,        \* receive calls made so far and the last call's result (history)
    origin      \* per event row: the delivery that stored it (history)

vars == <<fn, px, cc, coll, txns, last, nCalls, events, queue, procs, clock, celery,
          delivered, taskRuns, dispatched, coll0, txns0, redis, now, lk, tx,
          webhook_secret, rcv, origin>>

-----------------------------------------------------------------------------
(* Bounds *)

MaxCalls == 3        \* service calls in SpecSeq and SpecOps
MaxDeliveries == 2   \* receive_event calls in SpecHook
MaxTaskRuns == 2     \* executions of queued tasks in SpecHook
MaxTime == 40        \* seconds of time.time() followed in SpecLock
MaxReceives == 2     \* receive calls in SpecSig
MaxCreates == 2      \* create_collection calls in SpecCreate

-----------------------------------------------------------------------------
(* Strings and case conversion *)

NULL == "NULL"

\* status strings a webhook payload may carry ("unknown" is the parser default)
WebhookStatuses ==
    {"success", "Failed", "completed", "pending", "processing", "cancelled",
     "unknown"}

\* status strings a provider response (transact / validate / query) may carry
ProviderStatuses ==
    {"success", "DECLINED", "WaitingForOTP", "pending", " Paid ", "weird", NULL}

\* str.lower()
Lower(s) ==
    CASE s = "Failed" -> "failed"
      [] s = "DECLINED" -> "declined"
      [] s = "WaitingForOTP" -> "waitingforotp"
      [] s = " Paid " -> " paid "
      [] OTHER -> s

\* str.upper()
Upper(s) ==
    CASE s = "success" -> "SUCCESS"
      [] s = "Failed" -> "FAILED"
      [] s = "completed" -> "COMPLETED"
      [] s = "pending" -> "PENDING"
      [] s = "processing" -> "PROCESSING"
      [] s = "cancelled" -> "CANCELLED"
      [] s = "unknown" -> "UNKNOWN"
      [] s = "WaitingForOTP" -> "WAITINGFOROTP"
      [] s = " Paid " -> " PAID "
      [] s = "weird" -> "WEIRD"
      [] OTHER -> s

\* str.strip()
Strip(s) ==
    CASE s = " PAID " -> "PAID"
      [] s = "  " -> ""
      [] OTHER -> s

-----------------------------------------------------------------------------
(* collections/idempotency.py: IdempotentCollectionUpdate *)

STATUS_HIERARCHY(s) ==
    CASE s = "INITIATED" -> 1
      [] s = "PENDING" -> 2
      [] s = "PROCESSING" -> 3
      [] s = "SUCCESS" -> 4
      [] s = "FAILED" -> 4
      [] OTHER -> 0

TERMINAL_STATUSES == {"SUCCESS", "FAILED"}

\* faulty variant: the terminal-status check is dropped, only the rank check remains
should_update_no_terminal(current_status, new_status, allow_override) ==
    IF current_status = new_status THEN TRUE
    ELSE IF allow_override THEN TRUE
    ELSE IF STATUS_HIERARCHY(new_status) < STATUS_HIERARCHY(current_status)
         THEN FALSE
    ELSE TRUE

\* faulty variant: the backward-move check is dropped, only terminal statuses stick
should_update_no_rank(current_status, new_status, allow_override) ==
    IF current_status = new_status THEN TRUE
    ELSE IF allow_override THEN TRUE
    ELSE IF current_status \in TERMINAL_STATUSES THEN FALSE
    ELSE TRUE

\* faulty variant: a move to a status of equal rank is refused
should_update_strict_rank(current_status, new_status, allow_override) ==
    IF current_status = new_status THEN TRUE
    ELSE IF allow_override THEN TRUE
    ELSE IF current_status \in TERMINAL_STATUSES THEN FALSE
    ELSE IF STATUS_HIERARCHY(new_status) <= STATUS_HIERARCHY(current_status)
         THEN FALSE
    ELSE TRUE

\* faulty variant: from PENDING or INITIATED every new status is admitted
should_update_open_start(current_status, new_status, allow_override) ==
    IF current_status = new_status THEN TRUE
    ELSE IF allow_override THEN TRUE
    ELSE IF current_status \in TERMINAL_STATUSES THEN FALSE
    ELSE IF current_status \in {"PENDING", "INITIATED"} THEN TRUE
    ELSE IF STATUS_HIERARCHY(new_status) < STATUS_HIERARCHY(current_status)
         THEN FALSE
    ELSE TRUE

\* IdempotentCollectionUpdate.should_update
should_update(current_status, new_status, allow_override) ==
    IF current_status = new_status THEN TRUE
    ELSE IF allow_override THEN TRUE
    ELSE IF current_status \in TERMINAL_STATUSES THEN FALSE
    ELSE IF STATUS_HIERARCHY(new_status) < STATUS_HIERARCHY(current_status)
         THEN FALSE
    ELSE TRUE

-----------------------------------------------------------------------------
(* collections/services.py: data and pure parts *)

\* Collection.STATUS_CHOICES
CollectionStatusChoices ==
    {"PENDING", "INITIATED", "SUCCESS", "FAILED", "CANCELLED"}

\* Transaction.STATUS_CHOICES
TransactionStatusChoices == {"PENDING", "SUCCESS", "FAILED"}

TxTypes == {"DEBIT", "FEE"}

NoCollection ==
    [exists |-> FALSE, status |-> NULL, provider_ref |-> NULL,
     needs_validation |-> FALSE]

NoTransactions == [t \in TxTypes |-> "none"]

\* status_map.get(new_status.lower(), new_status.upper())
WebhookStatusMap(new_status) ==
    LET k == Lower(new_status)
    IN  CASE k \in {"success", "completed"} -> "SUCCESS"
          [] k = "failed" -> "FAILED"
          [] k \in {"pending", "processing", "initiated"} -> "INITIATED"
          [] OTHER -> Upper(new_status)

\* faulty variant: CANCELLED is not mapped to FAILED for the transactions
transaction_status_no_cancel(normalized_status) ==
    CASE normalized_status = "SUCCESS" -> "SUCCESS"
      [] normalized_status = "FAILED" -> "FAILED"
      [] OTHER -> "PENDING"

\* the transaction_status dict of update_collection_from_webhook
transaction_status(normalized_status) ==
    CASE normalized_status = "SUCCESS" -> "SUCCESS"
      [] normalized_status = "FAILED" -> "FAILED"
      [] normalized_status = "CANCELLED" -> "FAILED"
      [] normalized_status = "INITIATED" -> "PENDING"
      [] OTHER -> "PENDING"

\* Transaction.objects.filter(collection=..., status="PENDING").update(status=s)
BulkUpdatePending(t, s) ==
    [ty \in TxTypes |-> IF t[ty] = "PENDING" THEN s ELSE t[ty]]

\* faulty variant: the bulk update runs whether or not the transition was admitted
WriteBack_always_cascade(dbColl, dbTxns, snap, provider_ref, new_status, allow_override) ==
    LET normalized_status == WebhookStatusMap(new_status)
        su == should_update(snap.status, normalized_status, allow_override)
    IN  [coll |-> [dbColl EXCEPT
                     !.status = IF su THEN normalized_status ELSE @,
                     !.provider_ref = IF provider_ref # "" THEN provider_ref
                                      ELSE snap.provider_ref],
         txns |-> BulkUpdatePending(dbTxns,
                                    transaction_status(normalized_status)),
         admitted |-> su,
         normalized |-> normalized_status]

\* update_collection_from_webhook from the decision on: snap is the row as
\* read by Collection.objects.get, dbColl/dbTxns the rows when the writes
\* commit.  save(update_fields=...) writes status only when admitted and
\* provider_ref always.
WriteBack(dbColl, dbTxns, snap, provider_ref, new_status, allow_override) ==
    LET normalized_status == WebhookStatusMap(new_status)
        su == should_update(snap.status, normalized_status, allow_override)
    IN  [coll |-> [dbColl EXCEPT
                     !.status = IF su THEN normalized_status ELSE @,
                     !.provider_ref = IF provider_ref # "" THEN provider_ref
                                      ELSE snap.provider_ref],
         txns |-> IF su
                  THEN BulkUpdatePending(dbTxns,
                                         transaction_status(normalized_status))
                  ELSE dbTxns,
         admitted |-> su,
         normalized |-> normalized_status]

-----------------------------------------------------------------------------
(* webhooks/utils.py and PayloadParser over parsed JSON bodies.  A JSON     *)
(* value is [t, s, d]: t its Python type ("absent" for a key that is not    *)
(* in the dict), s its text for str, int and list values, d the members of  *)
(* a dict value.  Dicts nest one level, as the candidate paths do.          *)

SubKeys == {"id", "request_ref", "status"}

JLeaf(t, s) == [t |-> t, s |-> s]

NoDict == [k \in SubKeys |-> JLeaf("absent", "")]

JValue(t, s) == [t |-> t, s |-> s, d |-> NoDict]

JDict(d) == [t |-> "dict", s |-> "", d |-> d]

JAbsent == JValue("absent", "")

PyNone == JValue("none", "")

\* a dict member as a value of its own
Lift(leaf) == JValue(leaf.t, leaf.s)

\* dict.get(key): None for a key the dict does not hold
Get(dict, key) ==
    IF key \in DOMAIN dict /\ dict[key].t # "absent" THEN dict[key] ELSE PyNone

\* Python truth value: None, "", 0, [] and {} are false
PyTruthy(v) ==
    CASE v.t \in {"absent", "none"} -> FALSE
      [] v.t = "str" -> v.s # ""
      [] v.t = "int" -> v.s # "0"
      [] v.t = "list" -> v.s # "[]"
      [] v.t = "dict" -> \E k \in SubKeys : v.d[k].t # "absent"
      [] OTHER -> FALSE

\* repr of the members of a dict, in key order
RECURSIVE ReprItems(_, _)
ReprItems(d, keys) ==
    IF keys = <<>> THEN ""
    ELSE LET k == Head(keys)
             rest == ReprItems(d, Tail(keys))
             item == "'" \o k \o "': " \o
                     (CASE d[k].t = "str" -> "'" \o d[k].s \o "'"
                        [] d[k].t = "none" -> "None"
                        [] OTHER -> d[k].s)
         IN  IF d[k].t = "absent" THEN rest
             ELSE IF rest = "" THEN item
             ELSE item \o ", " \o rest

\* str(val) of a value that is not a str
PyStr(v) ==
    CASE v.t = "dict" -> "{" \o ReprItems(v.d, <<"id", "request_ref", "status">>) \o "}"
      [] v.t = "none" -> "None"
      [] OTHER -> v.s

\* utils._get_by_path, for paths of one or two keys
get_by_path(payload, path) ==
    IF payload.t # "dict" THEN PyNone
    ELSE LET node == Get(payload.d, path[1])
         IN  IF node.t = "none" THEN PyNone
             ELSE IF Len(path) = 1 THEN node
             ELSE IF node.t # "dict" THEN PyNone
             ELSE Lift(Get(node.d, path[2]))

\* utils._first_non_empty
RECURSIVE first_non_empty(_, _)
first_non_empty(payload, paths) ==
    IF paths = <<>> THEN NULL
    ELSE LET val == get_by_path(payload, Head(paths))
             s == IF val.t = "str" THEN Strip(val.s) ELSE PyStr(val)
         IN  IF val.t = "none" THEN first_non_empty(payload, Tail(paths))
             ELSE IF s = "" THEN first_non_empty(payload, Tail(paths))
             ELSE s

\* candidate_paths of utils.extract_request_ref
RequestRefPaths ==
    << <<"request_ref">>, <<"requestRef">>, <<"request_reference">>,
       <<"requestReference">>, <<"ref">>,
       <<"transaction", "request_ref">>, <<"transaction", "requestRef">>,
       <<"transaction", "reference">>,
       <<"data", "request_ref">>, <<"data", "requestRef">>, <<"data", "reference">>,
       <<"meta", "request_ref">>, <<"meta", "requestRef">>,
       <<"event", "request_ref">>, <<"event", "requestRef">>,
       <<"payload", "request_ref">>, <<"payload", "requestRef">> >>

\* candidate_paths of utils.extract_status
StatusPaths ==
    << <<"status">>, <<"transaction_status">>, <<"transactionStatus">>,
       <<"payment_status">>, <<"paymentStatus">>, <<"state">>,
       <<"transaction", "status">>, <<"transaction", "state">>,
       <<"data", "status">>, <<"data", "transaction_status">>,
       <<"data", "transactionStatus">>,
       <<"event", "status">>, <<"event", "state">>,
       <<"meta", "status">>, <<"response", "status">> >>

\* candidate_paths of utils.extract_event_id
EventIdPaths ==
    << <<"event_id">>, <<"eventId">>, <<"event">>, <<"id">>, <<"webhook_id">>,
       <<"webhookId">>, <<"event_key">>, <<"eventKey">>,
       <<"flutterwave_event_id">>, <<"flutterwaveEventId">>,
       <<"paystack_reference">>, <<"monnify_transaction_ref">>,
       <<"event", "id">>, <<"event", "event_id">>,
       <<"data", "event_id">>, <<"data", "eventId">>, <<"data", "id">>,
       <<"meta", "event_id">>, <<"meta", "eventId">>,
       <<"payload", "event_id">>, <<"payload", "id">> >>

\* utils.extract_request_ref
utils_extract_request_ref(payload) == first_non_empty(payload, RequestRefPaths)

\* utils.extract_status
utils_extract_status(payload) == first_non_empty(payload, StatusPaths)

\* utils.extract_event_id
utils_extract_event_id(payload) == first_non_empty(payload, EventIdPaths)

\* `payload.get(k1) or payload.get(k2) or ...`: the first true value, absent
\* when every one is false
RECURSIVE FirstTruthy(_, _)
FirstTruthy(payload, keys) ==
    IF keys = <<>> THEN JAbsent
    ELSE LET v == Get(payload.d, Head(keys))
         IN  IF PyTruthy(v) THEN v ELSE FirstTruthy(payload, Tail(keys))

\* `payload.get(container, {}).get(key)`: AttributeError when the container
\* key holds anything but a dict
NestedGet(payload, container, key) ==
    LET c == IF container \in DOMAIN payload.d THEN payload.d[container] ELSE JAbsent
    IN  IF c.t = "absent" THEN [raised |-> FALSE, value |-> PyNone]
        ELSE IF c.t = "dict" THEN [raised |-> FALSE, value |-> Lift(Get(c.d, key))]
        ELSE [raised |-> TRUE, value |-> PyNone]

Extracted(request_ref, provider_ref, status) ==
    [raised |-> FALSE, request_ref |-> request_ref, provider_ref |-> provider_ref,
     status |-> status]

\* the call ends in AttributeError
ExtractRaised ==
    [raised |-> TRUE, request_ref |-> PyNone, provider_ref |-> PyNone,
     status |-> PyNone]

\* PayloadParser._extract_paywithaccount
PayloadParser_extract_paywithaccount(payload) ==
    IF payload.t # "dict" THEN ExtractRaised
    ELSE
    LET r1 == FirstTruthy(payload, <<"request_ref", "requestRef", "ref", "reference">>)
        r2 == NestedGet(payload, "meta", "request_ref")
        p1 == FirstTruthy(payload, <<"provider_ref", "providerRef", "transaction_ref",
                                     "transactionRef", "reference", "txRef">>)
        p2 == NestedGet(payload, "data", "reference")
        s1 == FirstTruthy(payload, <<"status">>)
        s2 == NestedGet(payload, "transaction", "status")
        s3 == NestedGet(payload, "data", "status")
    IN  IF r1.t = "absent" /\ r2.raised THEN ExtractRaised
        ELSE IF p1.t = "absent" /\ p2.raised THEN ExtractRaised
        ELSE IF s1.t = "absent" /\ s2.raised THEN ExtractRaised
        ELSE IF s1.t = "absent" /\ ~PyTruthy(s2.value) /\ s3.raised THEN ExtractRaised
        ELSE Extracted(IF r1.t # "absent" THEN r1 ELSE r2.value,
                       IF p1.t # "absent" THEN p1 ELSE p2.value,
                       IF s1.t # "absent" THEN s1
                       ELSE IF PyTruthy(s2.value) THEN s2.value
                       ELSE IF PyTruthy(s3.value) THEN s3.value
                       ELSE JValue("str", "unknown"))

\* PayloadParser._extract_generic
PayloadParser_extract_generic(payload) ==
    IF payload.t # "dict" THEN ExtractRaised
    ELSE
    LET r1 == FirstTruthy(payload, <<"request_ref", "requestRef", "ref">>)
        p1 == FirstTruthy(payload, <<"provider_ref", "providerRef", "transaction_ref">>)
    IN  Extracted(IF r1.t # "absent" THEN r1 ELSE Get(payload.d, "id"),
                  IF p1.t # "absent" THEN p1 ELSE Get(payload.d, "reference"),
                  IF "status" \in DOMAIN payload.d /\ payload.d["status"].t # "absent"
                  THEN payload.d["status"]
                  ELSE JValue("str", "unknown"))

\* PayloadParser.extract_from_payload
PayloadParser_extract_from_payload(payload, provider) ==
    IF Lower(provider) \in {"paywithaccount", "onepipe"}
    THEN PayloadParser_extract_paywithaccount(payload)
    ELSE PayloadParser_extract_generic(payload)

-----------------------------------------------------------------------------
(* integrations/paywithaccount/normalization.py *)

\* DEFAULT_STATUS_MAP restricted to the keys ProviderStatuses can produce
DEFAULT_STATUS_MAP(key) ==
    CASE key \in {"SUCCESS", "PAID"} -> <<"SUCCESS", FALSE>>
      [] key \in {"FAILED", "DECLINED"} -> <<"FAILED", FALSE>>
      [] key \in {"PENDING"} -> <<"PENDING", FALSE>>
      [] key \in {"WAITINGFOROTP"} -> <<"PENDING", TRUE>>
      [] OTHER -> <<"NULL", FALSE>>

\* faulty variant: a status that is not in the mapping is passed through
normalize_provider_status_passthrough(raw_status) ==
    IF ~PyTruthy(raw_status) \/ raw_status.t # "str" THEN <<"PENDING", FALSE>>
    ELSE LET normalized_key == Strip(Upper(raw_status.s))
         IN  IF DEFAULT_STATUS_MAP(normalized_key)[1] # "NULL"
             THEN DEFAULT_STATUS_MAP(normalized_key)
             ELSE <<normalized_key, FALSE>>

\* normalize_provider_status on a value of the provider's JSON response
normalize_provider_status(raw_status) ==
    IF ~PyTruthy(raw_status) \/ raw_status.t # "str" THEN <<"PENDING", FALSE>>
    ELSE LET normalized_key == Strip(Upper(raw_status.s))
         IN  IF DEFAULT_STATUS_MAP(normalized_key)[1] # "NULL"
             THEN DEFAULT_STATUS_MAP(normalized_key)
             ELSE <<"PENDING", FALSE>>

\* a status string, or None, as a value of the provider's JSON response
PyValue(x) == IF x = NULL THEN PyNone ELSE JValue("str", x)

-----------------------------------------------------------------------------
(* State shared by all specifications *)

NoCall ==
    [op |-> "none", raw |-> NULL, pre_status |-> NULL,
     pre_txns |-> NoTransactions, admitted |-> FALSE, raised |-> FALSE,
     allow_override |-> FALSE]

NoFn ==
    [cur |-> NULL, new |-> NULL, allow_override |-> FALSE, phase |-> "off",
     result |-> FALSE]

NoExtraction ==
    [event_id |-> NULL, request_ref |-> NULL, status |-> NULL,
     parsed |-> Extracted(PyNone, PyNone, PyNone)]

NoParse ==
    [payload |-> PyNone, provider |-> NULL, phase |-> "off",
     result |-> NoExtraction]

NoCreateCall == [user |-> NULL, idempotency_key |-> NULL]

NoCreate ==
    [rows |-> <<>>, tx_rows |-> 0, provider_calls |-> 0, n |-> 0,
     call |-> NoCreateCall, ret |-> 0, path |-> "none"]


\* request/worker processes
Procs == {"w1", "w2"}

\* webhook payloads: the keys the parser reads, NULL for an absent key
NoPayload ==
    [event_id |-> NULL, request_ref |-> NULL, status |-> NULL,
     provider_ref |-> NULL]

IdleProc ==
    [pc |-> "idle", call |-> "none", payload |-> NoPayload, ev |-> 0,
     ret |-> 0, snap |-> NoCollection, attempt |-> 0, path |-> "none"]

fnVars == <<fn, px, cc>>
dbVars == <<coll, txns>>
callVars == <<last, nCalls>>
hookVars == <<events, queue, procs, clock, celery, delivered, taskRuns,
              dispatched, coll0, txns0>>

HookOff ==
    /\ events = <<>>
    /\ queue = {}
    /\ procs = [p \in Procs |-> IdleProc]
    /\ clock = 0
    /\ celery = FALSE
    /\ delivered = <<>>
    /\ taskRuns = 0
    /\ dispatched = <<>>
    /\ coll0 = NoCollection
    /\ txns0 = NoTransactions

\* the Redis key when it is not set
NoKey == [token |-> 0, expires |-> 0]

\* a ProcessingLock object before acquire(), with the history of the
\* process_event call that owns it
NoLock ==
    [lock_id |-> 0, acquired |-> FALSE, start_time |-> 0, how |-> "none",
     released |-> "none", raised |-> FALSE, applied |-> FALSE]

\* no transaction open
NoTx ==
    [pc |-> "idle", snap |-> NoCollection, provider_ref |-> "",
     new_status |-> NULL, wcoll |-> NoCollection, wtxns |-> NoTransactions,
     outcome |-> "none", at |-> "none", pre_coll |-> NoCollection,
     pre_txns |-> NoTransactions]

\* no receive call made yet
NoReceive == [calls |-> <<>>, raised |-> FALSE, ret |-> 0, http |-> 0]

lockVars == <<redis, now, lk>>
txVars == <<tx>>
sigVars == <<webhook_secret, rcv, origin>>
extVars == <<lockVars, txVars, sigVars>>

LockOff ==
    /\ redis = NoKey
    /\ now = 0
    /\ lk = [p \in Procs |-> NoLock]

TxOff == tx = NoTx

SigOff ==
    /\ webhook_secret = ""
    /\ rcv = NoReceive
    /\ origin = <<>>

ExtOff == LockOff /\ TxOff /\ SigOff

-----------------------------------------------------------------------------
(* SpecFn: should_update as a pure function of its three arguments *)

FnStatuses ==
    {"INITIATED", "PENDING", "PROCESSING", "SUCCESS", "FAILED", "CANCELLED",
     "UNKNOWN"}

InitFn ==
    /\ fn \in [cur : FnStatuses, new : FnStatuses, allow_override : BOOLEAN,
               phase : {"input"}, result : {FALSE}]
    /\ px = NoParse
    /\ cc = NoCreate
    /\ coll = NoCollection
    /\ txns = NoTransactions
    /\ last = NoCall
    /\ nCalls = 0
    /\ HookOff
    /\ ExtOff

CallShouldUpdate ==
    /\ fn.phase = "input"
    /\ fn' = [fn EXCEPT !.phase = "done",
                        !.result = should_update(fn.cur, fn.new,
                                                 fn.allow_override)]
    /\ UNCHANGED <<px, cc, dbVars, callVars, hookVars, extVars>>

NextFn == CallShouldUpdate

SpecFn == InitFn /\ [][NextFn]_vars

-----------------------------------------------------------------------------
(* collections/idempotency.py: get_update_fields *)

\* IdempotentCollectionUpdate.get_update_fields
get_update_fields(current_status, new_status, allow_override) ==
    IF ~should_update(current_status, new_status, allow_override)
    THEN PyNone
    ELSE [status |-> new_status]

-----------------------------------------------------------------------------
(* webhooks/idempotency.py: IdempotentCollectionUpdate, the second class of *)
(* that name, with its own STATUS_HIERARCHY and TERMINAL_STATUSES           *)

\* faulty variant: the copy's hierarchy has drifted, PROCESSING is missing
webhooks_should_update_drift(current_status, new_status, allow_override) ==
    LET hierarchy(s) ==
            CASE s = "INITIATED" -> 1
              [] s = "PENDING" -> 2
              [] s = "SUCCESS" -> 4
              [] s = "FAILED" -> 4
              [] OTHER -> 0
        terminal == {"SUCCESS", "FAILED"}
    IN  IF current_status = new_status THEN TRUE
        ELSE IF allow_override THEN TRUE
        ELSE IF current_status \in terminal THEN FALSE
        ELSE IF hierarchy(new_status) < hierarchy(current_status) THEN FALSE
        ELSE TRUE

\* IdempotentCollectionUpdate.should_update of core_apps.webhooks.idempotency
webhooks_should_update(current_status, new_status, allow_override) ==
    LET hierarchy(s) ==
            CASE s = "INITIATED" -> 1
              [] s = "PENDING" -> 2
              [] s = "PROCESSING" -> 3
              [] s = "SUCCESS" -> 4
              [] s = "FAILED" -> 4
              [] OTHER -> 0
        terminal == {"SUCCESS", "FAILED"}
    IN  IF current_status = new_status THEN TRUE
        ELSE IF allow_override THEN TRUE
        ELSE IF current_status \in terminal THEN FALSE
        ELSE IF hierarchy(new_status) < hierarchy(current_status) THEN FALSE
        ELSE TRUE

\* IdempotentCollectionUpdate.get_update_fields of core_apps.webhooks.idempotency
webhooks_get_update_fields(current_status, new_status, allow_override) ==
    IF ~webhooks_should_update(current_status, new_status, allow_override)
    THEN PyNone
    ELSE [status |-> new_status]

-----------------------------------------------------------------------------
(* SpecTwin: both IdempotentCollectionUpdate classes called with the same  *)
(* three arguments                                                         *)

CallBothClasses ==
    /\ fn.phase = "input"
    /\ fn' = [fn EXCEPT !.phase = "done",
                        !.result = should_update(fn.cur, fn.new, fn.allow_override)]
    /\ last' = [op |-> "idempotency",
                collections |->
                    [should_update |-> should_update(fn.cur, fn.new, fn.allow_override),
                     get_update_fields |-> get_update_fields(fn.cur, fn.new, fn.allow_override)],
                webhooks |->
                    [should_update |-> webhooks_should_update(fn.cur, fn.new, fn.allow_override),
                     get_update_fields |-> webhooks_get_update_fields(fn.cur, fn.new, fn.allow_override)]]
    /\ UNCHANGED <<px, cc, dbVars, nCalls, hookVars, extVars>>

NextTwin == CallBothClasses

SpecTwin == InitFn /\ [][NextTwin]_vars

-----------------------------------------------------------------------------
(* SpecSeq: update_collection_from_webhook calls applied one after another *)
(* to a Collection row of any admissible content.                          *)

RequestRefs == {"r1", "r2"}     \* "r1" is the Collection's request_ref

InitSeq ==
    /\ fn = NoFn
    /\ px = NoParse
    /\ cc = NoCreate
    /\ coll \in [exists : {TRUE}, status : CollectionStatusChoices,
                 provider_ref : {NULL, "p1"}, needs_validation : {FALSE}]
    /\ txns \in [TxTypes -> TransactionStatusChoices \cup {"none"}]
    /\ txns["DEBIT"] # "none"
    /\ last = NoCall
    /\ nCalls = 0
    /\ HookOff
    /\ ExtOff

\* CollectionsService.update_collection_from_webhook, the whole handler
update_collection_from_webhook(request_ref, provider_ref, new_status, allow_override) ==
    /\ nCalls < MaxCalls
    /\ nCalls' = nCalls + 1
    /\ IF coll.exists /\ request_ref = "r1"
       THEN LET r == WriteBack(coll, txns, coll, provider_ref, new_status,
                               allow_override)
            IN  /\ coll' = r.coll
                /\ txns' = r.txns
                /\ last' = [op |-> "webhook", raw |-> new_status,
                            pre_status |-> coll.status, pre_txns |-> txns,
                            admitted |-> r.admitted, raised |-> FALSE,
                            allow_override |-> allow_override]
       ELSE \* Collection.DoesNotExist -> CollectionError
            /\ UNCHANGED dbVars
            /\ last' = [op |-> "webhook", raw |-> new_status,
                        pre_status |-> coll.status, pre_txns |-> txns,
                        admitted |-> FALSE, raised |-> TRUE,
                        allow_override |-> allow_override]
    /\ UNCHANGED <<fnVars, extVars, hookVars>>

WebhookUpdate ==
    \E request_ref \in RequestRefs, provider_ref \in {"", "p2"},
       new_status \in WebhookStatuses, allow_override \in BOOLEAN :
        update_collection_from_webhook(request_ref, provider_ref, new_status,
                                       allow_override)

NextSeq == WebhookUpdate

SpecSeq == InitSeq /\ [][NextSeq]_vars

-----------------------------------------------------------------------------
(* SpecOps: the four service operations that write Collection.status,      *)
(* each a whole handler inside its database transaction, in any order.     *)

OpCall(op, raw, admitted, raised) ==
    [op |-> op, raw |-> raw, pre_status |-> coll.status, pre_txns |-> txns,
     admitted |-> admitted, raised |-> raised, allow_override |-> FALSE]

InitOps ==
    /\ fn = NoFn
    /\ px = NoParse
    /\ cc = NoCreate
    /\ coll = NoCollection
    /\ txns = NoTransactions
    /\ last = NoCall
    /\ nCalls = 0
    /\ HookOff
    /\ ExtOff

\* the if/elif chain on (normalized_status, needs_validation) of
\* create_collection
CreateStatus(norm) ==
    IF norm[2] THEN "PENDING"
    ELSE IF norm[1] = "SUCCESS" THEN "SUCCESS"
    ELSE IF norm[1] = "FAILED" THEN "FAILED"
    ELSE "PENDING"

\* the if/elif chain of validate_collection and query_collection_status
PolledStatus(norm) ==
    IF norm[1] = "SUCCESS" THEN "SUCCESS"
    ELSE IF norm[1] = "FAILED" THEN "FAILED"
    ELSE "PENDING"

\* CollectionsService.create_collection (no idempotency key); provider_ok is
\* whether pwa_client.transact returned instead of raising
create_collection(provider_ok, provider_status, provider_ref, has_fee) ==
    /\ nCalls < MaxCalls
    /\ ~coll.exists
    /\ nCalls' = nCalls + 1
    /\ IF provider_ok
       THEN LET norm == normalize_provider_status(PyValue(provider_status))
                collection_status == CreateStatus(norm)
                tx_status == IF collection_status \in {"PENDING", "INITIATED"}
                             THEN "PENDING" ELSE collection_status
            IN  /\ coll' = [exists |-> TRUE, status |-> collection_status,
                            provider_ref |-> provider_ref,
                            needs_validation |-> norm[2]]
                /\ txns' = [ty \in TxTypes |->
                              IF ty = "FEE" /\ ~has_fee THEN "none"
                              ELSE tx_status]
                /\ last' = OpCall("create", provider_status, TRUE, FALSE)
       ELSE /\ UNCHANGED dbVars
            /\ last' = OpCall("create", provider_status, FALSE, TRUE)
    /\ UNCHANGED <<fnVars, extVars, hookVars>>

\* CollectionsService.validate_collection on the row the view just loaded
validate_collection(provider_ok, provider_status) ==
    /\ nCalls < MaxCalls
    /\ coll.exists
    /\ nCalls' = nCalls + 1
    /\ IF coll.status = "PENDING" /\ coll.needs_validation /\ provider_ok
       THEN LET norm == normalize_provider_status(PyValue(provider_status))
                new_status == PolledStatus(norm)
            IN  /\ coll' = [coll EXCEPT !.status = new_status,
                                        !.needs_validation = norm[2]]
                /\ txns' = BulkUpdatePending(txns, new_status)
                /\ last' = OpCall("validate", provider_status, TRUE, FALSE)
       ELSE /\ UNCHANGED dbVars
            /\ last' = OpCall("validate", provider_status, FALSE, TRUE)
    /\ UNCHANGED <<fnVars, extVars, hookVars>>

\* CollectionsService.query_collection_status on the row the view just loaded
query_collection_status(provider_ok, provider_status) ==
    /\ nCalls < MaxCalls
    /\ coll.exists
    /\ nCalls' = nCalls + 1
    /\ IF provider_ok
       THEN LET norm == normalize_provider_status(PyValue(provider_status))
                new_status == PolledStatus(norm)
            IN  IF coll.status # new_status
                THEN /\ coll' = [coll EXCEPT !.status = new_status,
                                             !.needs_validation = norm[2]]
                     /\ txns' = BulkUpdatePending(txns, new_status)
                     /\ last' = OpCall("query", provider_status, TRUE, FALSE)
                ELSE /\ UNCHANGED dbVars
                     /\ last' = OpCall("query", provider_status, FALSE, FALSE)
       ELSE /\ UNCHANGED dbVars
            /\ last' = OpCall("query", provider_status, FALSE, TRUE)
    /\ UNCHANGED <<fnVars, extVars, hookVars>>

CreateCollection ==
    \E provider_ok \in BOOLEAN, provider_status \in ProviderStatuses, provider_ref \in {NULL, "p1"}, has_fee \in BOOLEAN :
        create_collection(provider_ok, provider_status, provider_ref, has_fee)

ProcessWebhook ==
    \E request_ref \in RequestRefs, provider_ref \in {"", "p2"}, new_status \in WebhookStatuses :
        update_collection_from_webhook(request_ref, provider_ref, new_status, FALSE)

ValidateCollection ==
    \E provider_ok \in BOOLEAN, provider_status \in ProviderStatuses :
        validate_collection(provider_ok, provider_status)

QueryCollectionStatus ==
    \E provider_ok \in BOOLEAN, provider_status \in ProviderStatuses :
        query_collection_status(provider_ok, provider_status)

NextOps ==
    \/ CreateCollection
    \/ ProcessWebhook
    \/ ValidateCollection
    \/ QueryCollectionStatus

SpecOps == InitOps /\ [][NextOps]_vars

-----------------------------------------------------------------------------
(* SpecHook: webhook ingestion.  Request and worker processes run          *)
(* receive_event and process_event concurrently, one statement group per   *)
(* step; the lock is the fallback lock (no distributed backend).           *)

HookPayloads ==
    { [event_id |-> "e1", request_ref |-> "r1", status |-> "success", provider_ref |-> "p2"],
      [event_id |-> "e2", request_ref |-> "r1", status |-> "Failed", provider_ref |-> NULL],
      [event_id |-> NULL, request_ref |-> "r1", status |-> NULL, provider_ref |-> NULL],
      [event_id |-> "e2", request_ref |-> NULL, status |-> "success", provider_ref |-> NULL] }

\* PayloadParser._extract_paywithaccount
extract_paywithaccount(payload) ==
    [request_ref |-> payload.request_ref,
     provider_ref |-> payload.provider_ref,
     status |-> IF payload.status # NULL THEN payload.status ELSE "unknown"]

\* Python truth value of an Optional[str]
Truthy(s) == s # NULL /\ s # ""

\* process_event: `if not status: status = "pending"`
process_event_status(status) == IF Truthy(status) THEN status ELSE "pending"

\* utils.extract_event_id on the first candidate path ["event_id"]
extract_event_id(payload) == payload.event_id

\* rows WebhookEvent.objects.get(event_id=...) matches
RowsWithEventId(evs, event_id) ==
    {i \in DOMAIN evs : evs[i].event_id = event_id}

\* faulty variant: event_id carries no uniqueness constraint
UniqueViolation_off(evs, event_id) == FALSE

\* WebhookEvent.event_id: unique=True, null=True (NULLs never collide)
UniqueViolation(evs, event_id) ==
    event_id # NULL /\ RowsWithEventId(evs, event_id) # {}

NewEvent(event_id, request_ref, payload) ==
    [event_id |-> event_id, request_ref |-> request_ref, payload |-> payload,
     status |-> "RECEIVED", error |-> "", processed_at |-> 0]

\* WebhookEvent.error as the except clauses of process_event compose it
ErrMissingRequestRef ==
    "Unexpected error: Could not extract request_ref from webhook payload"

ErrCollectionNotFound ==
    "CollectionError: Collection not found for request_ref=r1"

\* Collection rows as create_collection leaves them, and no row at all
HookCollections ==
    { [c |-> NoCollection, t |-> NoTransactions],
      [c |-> [exists |-> TRUE, status |-> "PENDING", provider_ref |-> NULL, needs_validation |-> FALSE],
       t |-> [ty \in TxTypes |-> "PENDING"]],
      [c |-> [exists |-> TRUE, status |-> "SUCCESS", provider_ref |-> "p1", needs_validation |-> FALSE],
       t |-> [ty \in TxTypes |-> "SUCCESS"]] }

InitHook ==
    /\ fn = NoFn
    /\ px = NoParse
    /\ cc = NoCreate
    /\ \E h \in HookCollections :
          /\ coll = h.c
          /\ txns = h.t
          /\ coll0 = h.c
          /\ txns0 = h.t
    /\ last = NoCall
    /\ nCalls = 0
    /\ events = <<>>
    /\ queue = {}
    /\ procs = [p \in Procs |-> IdleProc]
    /\ clock = 0
    /\ celery \in BOOLEAN
    /\ delivered = <<>>
    /\ taskRuns = 0
    /\ dispatched = <<>>
    /\ ExtOff

SetProc(p, r) == procs' = [procs EXCEPT ![p] = r]

\* a caller invokes receive_event(provider="paywithaccount", payload)
ReceiveStart(p) ==
    /\ procs[p].pc = "idle"
    /\ Len(delivered) < MaxDeliveries
    /\ \E payload \in HookPayloads :
          /\ delivered' = Append(delivered, payload)
          /\ SetProc(p, [IdleProc EXCEPT !.pc = "rcv_check",
                                         !.call = "receive",
                                         !.payload = payload])
    /\ UNCHANGED <<fnVars, extVars, dbVars, callVars, events, queue, clock, celery, taskRuns, dispatched, coll0, txns0>>

\* faulty variant: a duplicate is handed on to dispatch instead of being returned
RcvCheck_reprocess(p) ==
    /\ procs[p].pc = "rcv_check"
    /\ LET event_id == extract_event_id(procs[p].payload)
           rows == RowsWithEventId(events, event_id)
       IN  IF event_id # NULL /\ rows # {}
           THEN SetProc(p, [procs[p] EXCEPT !.pc = "rcv_dispatch",
                                            !.ev = CHOOSE i \in rows : TRUE,
                                            !.path = "duplicate"])
           ELSE SetProc(p, [procs[p] EXCEPT !.pc = "rcv_insert"])
    /\ UNCHANGED <<fnVars, extVars, dbVars, callVars, events, queue, clock, celery, delivered, taskRuns, dispatched, coll0, txns0>>

\* receive_event up to the duplicate check: an existing row with the
\* delivery's event_id is returned as it is
RcvCheck(p) ==
    /\ procs[p].pc = "rcv_check"
    /\ LET event_id == extract_event_id(procs[p].payload)
           rows == RowsWithEventId(events, event_id)
       IN  IF event_id # NULL /\ rows # {}
           THEN SetProc(p, [procs[p] EXCEPT !.pc = "idle",
                                            !.ret = CHOOSE i \in rows : TRUE,
                                            !.path = "duplicate"])
           ELSE SetProc(p, [procs[p] EXCEPT !.pc = "rcv_insert"])
    /\ UNCHANGED <<fnVars, extVars, dbVars, callVars, events, queue, clock, celery, delivered, taskRuns, dispatched, coll0, txns0>>

\* faulty variant: the loser of the insert race dispatches processing of the
\* winner's row before returning it
RcvInsert_loser_dispatches(p) ==
    /\ procs[p].pc = "rcv_insert"
    /\ LET event_id == extract_event_id(procs[p].payload)
           request_ref == extract_paywithaccount(procs[p].payload).request_ref
       IN  IF UniqueViolation(events, event_id)
           THEN /\ SetProc(p, [procs[p] EXCEPT
                      !.pc = "rcv_dispatch",
                      !.ev = CHOOSE i \in RowsWithEventId(events, event_id) : TRUE,
                      !.path = "race"])
                /\ UNCHANGED <<events, dispatched>>
           ELSE /\ events' = Append(events, NewEvent(event_id, request_ref, procs[p].payload))
                /\ dispatched' = Append(dispatched, 0)
                /\ SetProc(p, [procs[p] EXCEPT !.pc = "rcv_dispatch",
                                               !.ev = Len(events) + 1,
                                               !.path = "stored"])
    /\ UNCHANGED <<fnVars, extVars, dbVars, callVars, queue, clock, celery, delivered, taskRuns, coll0, txns0>>

\* receive_event: WebhookEvent.objects.create, and on IntegrityError the
\* re-fetch by event_id
RcvInsert(p) ==
    /\ procs[p].pc = "rcv_insert"
    /\ LET event_id == extract_event_id(procs[p].payload)
           request_ref == extract_paywithaccount(procs[p].payload).request_ref
       IN  IF UniqueViolation(events, event_id)
           THEN /\ SetProc(p, [procs[p] EXCEPT
                      !.pc = "idle",
                      !.ret = CHOOSE i \in RowsWithEventId(events, event_id) : TRUE,
                      !.path = "race"])
                /\ UNCHANGED <<events, dispatched>>
           ELSE /\ events' = Append(events, NewEvent(event_id, request_ref, procs[p].payload))
                /\ dispatched' = Append(dispatched, 0)
                /\ SetProc(p, [procs[p] EXCEPT !.pc = "rcv_dispatch",
                                               !.ev = Len(events) + 1,
                                               !.path = "stored"])
    /\ UNCHANGED <<fnVars, extVars, dbVars, callVars, queue, clock, celery, delivered, taskRuns, coll0, txns0>>

\* receive_event: process_webhook_event_task.delay, or inline process_event
\* when the task module does not import
RcvDispatch(p) ==
    /\ procs[p].pc = "rcv_dispatch"
    /\ dispatched' = [dispatched EXCEPT ![procs[p].ev] = @ + 1]
    /\ IF celery
       THEN /\ queue' = queue \cup {procs[p].ev}
            /\ SetProc(p, [procs[p] EXCEPT !.pc = "idle", !.ret = procs[p].ev])
       ELSE /\ queue' = queue
            /\ SetProc(p, [procs[p] EXCEPT !.pc = "pe_load", !.ret = procs[p].ev])
    /\ UNCHANGED <<fnVars, extVars, dbVars, callVars, events, clock, celery, delivered, taskRuns, coll0, txns0>>

\* a worker executes process_webhook_event_task for a queued event; the
\* queue is at-least-once: the message is acknowledged or stays for redelivery
TaskStart(p) ==
    /\ procs[p].pc = "idle"
    /\ taskRuns < MaxTaskRuns
    /\ \E id \in queue, ack \in BOOLEAN :
          /\ queue' = IF ack THEN queue \ {id} ELSE queue
          /\ SetProc(p, [IdleProc EXCEPT !.pc = "pe_load", !.call = "task",
                                         !.ev = id,
                                         !.payload = events[id].payload])
    /\ taskRuns' = taskRuns + 1
    /\ UNCHANGED <<fnVars, extVars, dbVars, callVars, events, clock, celery, delivered, dispatched, coll0, txns0>>

\* ProcessingLock._acquire_db: the fallback lock is always acquired
acquire_db(key) == TRUE

\* faulty variant: request_ref is not checked before the update call
PeLoad_no_check(p) ==
    /\ procs[p].pc = "pe_load"
    /\ acquire_db(extract_paywithaccount(events[procs[p].ev].payload).request_ref)
    /\ SetProc(p, [procs[p] EXCEPT !.pc = "pe_read", !.attempt = 1])
    /\ UNCHANGED <<fnVars, extVars, dbVars, callVars, events, queue, clock, celery, delivered, taskRuns, dispatched, coll0, txns0>>

\* process_event: load the event, parse the stored payload, check request_ref
\* and enter the processing_lock scope
PeLoad(p) ==
    /\ procs[p].pc = "pe_load"
    /\ LET extracted == extract_paywithaccount(events[procs[p].ev].payload)
       IN  IF extracted.request_ref = NULL
           THEN SetProc(p, [procs[p] EXCEPT !.pc = "pe_fail",
                                            !.path = ErrMissingRequestRef])
           ELSE /\ acquire_db(extracted.request_ref)
                /\ SetProc(p, [procs[p] EXCEPT !.pc = "pe_read", !.attempt = 1])
    /\ UNCHANGED <<fnVars, extVars, dbVars, callVars, events, queue, clock, celery, delivered, taskRuns, dispatched, coll0, txns0>>

\* update_collection_from_webhook up to the decision: Collection.objects.get.
\* CollectionError raised inside the with block is caught by the
\* "except Exception as lock_err" clause, which makes the call a second time.
PeRead(p) ==
    /\ procs[p].pc = "pe_read"
    /\ LET extracted == extract_paywithaccount(events[procs[p].ev].payload)
       IN  IF coll.exists /\ extracted.request_ref = "r1"
           THEN SetProc(p, [procs[p] EXCEPT !.pc = "pe_write", !.snap = coll])
           ELSE IF procs[p].attempt = 1
           THEN SetProc(p, [procs[p] EXCEPT !.attempt = 2])
           ELSE SetProc(p, [procs[p] EXCEPT !.pc = "pe_fail",
                                            !.path = ErrCollectionNotFound])
    /\ UNCHANGED <<fnVars, extVars, dbVars, callVars, events, queue, clock, celery, delivered, taskRuns, dispatched, coll0, txns0>>

\* faulty variant: a rejected transition raises CollectionError
PeWrite_reject_raises(p) ==
    /\ procs[p].pc = "pe_write"
    /\ LET extracted == extract_paywithaccount(events[procs[p].ev].payload)
           provider_ref == IF extracted.provider_ref = NULL THEN "" ELSE extracted.provider_ref
           r == WriteBack(coll, txns, procs[p].snap, provider_ref, process_event_status(extracted.status), FALSE)
       IN  IF r.admitted
           THEN /\ coll' = r.coll
                /\ txns' = r.txns
                /\ SetProc(p, [procs[p] EXCEPT !.pc = "pe_mark"])
           ELSE /\ UNCHANGED dbVars
                /\ SetProc(p, [procs[p] EXCEPT !.pc = "pe_fail", !.path = ErrCollectionNotFound])
    /\ UNCHANGED <<fnVars, extVars, callVars, events, queue, clock, celery, delivered, taskRuns, dispatched, coll0, txns0>>

\* update_collection_from_webhook from the decision to the commit of its
\* transaction: collection.save(update_fields) and the bulk update
PeWrite(p) ==
    /\ procs[p].pc = "pe_write"
    /\ LET extracted == extract_paywithaccount(events[procs[p].ev].payload)
           provider_ref == IF extracted.provider_ref = NULL THEN "" ELSE extracted.provider_ref
           r == WriteBack(coll, txns, procs[p].snap, provider_ref, process_event_status(extracted.status), FALSE)
       IN  /\ coll' = r.coll
           /\ txns' = r.txns
    /\ SetProc(p, [procs[p] EXCEPT !.pc = "pe_mark"])
    /\ UNCHANGED <<fnVars, extVars, callVars, events, queue, clock, celery, delivered, taskRuns, dispatched, coll0, txns0>>

\* process_event: mark the event PROCESSED
PeMark(p) ==
    /\ procs[p].pc = "pe_mark"
    /\ clock' = clock + 1
    /\ events' = [events EXCEPT ![procs[p].ev].status = "PROCESSED",
                                ![procs[p].ev].processed_at = clock + 1]
    /\ SetProc(p, [procs[p] EXCEPT !.pc = "idle", !.path = "PROCESSED",
                                     !.snap = NoCollection, !.attempt = 0])
    /\ UNCHANGED <<fnVars, extVars, dbVars, callVars, queue, celery, delivered, taskRuns, dispatched, coll0, txns0>>

\* faulty variant: the except clauses of process_event return without
\* marking the event
PeFail_keeps_received(p) ==
    /\ procs[p].pc = "pe_fail"
    /\ SetProc(p, [procs[p] EXCEPT !.pc = "idle", !.path = "FAILED",
                                     !.snap = NoCollection, !.attempt = 0])
    /\ UNCHANGED <<fnVars, extVars, dbVars, callVars, events, queue, clock, celery, delivered, taskRuns, dispatched, coll0, txns0>>

\* process_event: the except clauses mark the event FAILED
PeFail(p) ==
    /\ procs[p].pc = "pe_fail"
    /\ clock' = clock + 1
    /\ events' = [events EXCEPT ![procs[p].ev].status = "FAILED",
                                ![procs[p].ev].error = procs[p].path,
                                ![procs[p].ev].processed_at = clock + 1]
    /\ SetProc(p, [procs[p] EXCEPT !.pc = "idle", !.path = "FAILED",
                                     !.snap = NoCollection, !.attempt = 0])
    /\ UNCHANGED <<fnVars, extVars, dbVars, callVars, queue, celery, delivered, taskRuns, dispatched, coll0, txns0>>

NextHook ==
    \E p \in Procs :
        \/ ReceiveStart(p)
        \/ RcvCheck(p)
        \/ RcvInsert(p)
        \/ RcvDispatch(p)
        \/ TaskStart(p)
        \/ PeLoad(p)
        \/ PeRead(p)
        \/ PeWrite(p)
        \/ PeMark(p)
        \/ PeFail(p)

SpecHook == InitHook /\ [][NextHook]_vars

\* a started receive_event or process_event call runs on to its return:
\* none of its steps waits for another process (the fallback lock is always
\* acquired), so each step that is enabled is eventually taken.  Nothing is
\* assumed of the worker picking a queued task up (TaskStart).
SpecHookFair ==
    /\ SpecHook
    /\ \A p \in Procs :
          /\ WF_vars(RcvDispatch(p))
          /\ WF_vars(PeLoad(p))
          /\ WF_vars(PeRead(p))
          /\ WF_vars(PeWrite(p))
          /\ WF_vars(PeMark(p))
          /\ WF_vars(PeFail(p))

-----------------------------------------------------------------------------
(* SpecLock: process_event with the distributed lock backend (Redis).      *)
(* Two WebhookEvent rows for request_ref "r1" are stored and queued; the   *)
(* workers run process_event on them, each task once, while time passes    *)
(* and while the create_collection transaction for "r1" may still be       *)
(* uncommitted.                                                            *)

\* processing_lock(lock_key, timeout=30, wait_timeout=10), in seconds
LOCK_TIMEOUT == 30
WAIT_TIMEOUT == 10

LockEvents ==
    << NewEvent("e1", "r1", [event_id |-> "e1", request_ref |-> "r1", status |-> "success", provider_ref |-> "p2"]),
       NewEvent("e2", "r1", [event_id |-> "e2", request_ref |-> "r1", status |-> "Failed", provider_ref |-> NULL]) >>

InitLock ==
    /\ fn = NoFn
    /\ px = NoParse
    /\ cc = NoCreate
    /\ \E h \in HookCollections :
          /\ coll = h.c
          /\ txns = h.t
          /\ coll0 = h.c
          /\ txns0 = h.t
    /\ last = NoCall
    /\ nCalls = 0
    /\ events = LockEvents
    /\ queue = {1, 2}
    /\ procs = [p \in Procs |-> IdleProc]
    /\ clock = 0
    /\ celery = TRUE
    /\ delivered = <<LockEvents[1].payload, LockEvents[2].payload>>
    /\ taskRuns = 0
    /\ dispatched = <<1, 1>>
    /\ LockOff
    /\ TxOff
    /\ SigOff

SetLock(p, r) == lk' = [lk EXCEPT ![p] = r]

\* Redis drops a key when its expiry (SET ... EX timeout) has elapsed
Live(key, t) == key.token # 0 /\ t < key.expires

\* redis_client.set(lock_key, lock_id, nx=True, ex=timeout)
set_nx_ex(key, t, lock_id, timeout) ==
    IF Live(key, t)
    THEN [key |-> key, result |-> FALSE]
    ELSE [key |-> [token |-> lock_id, expires |-> t + timeout], result |-> TRUE]

\* faulty variant: the script deletes the key whatever token it holds
release_script_unconditional(key, t, lock_id) ==
    IF Live(key, t)
    THEN [key |-> NoKey, result |-> TRUE]
    ELSE [key |-> key, result |-> FALSE]

\* the Lua script of _release_redis: delete the key if it holds lock_id
release_script(key, t, lock_id) ==
    IF Live(key, t) /\ key.token = lock_id
    THEN [key |-> NoKey, result |-> TRUE]
    ELSE [key |-> key, result |-> FALSE]

\* a worker takes a queued task and acknowledges it, process_event loads
\* the event and parses its payload, and processing_lock constructs the
\* ProcessingLock (lock_id is fresh); _acquire_redis notes its start time
LkStart(p) ==
    /\ procs[p].pc = "idle"
    /\ \E id \in queue :
          /\ queue' = queue \ {id}
          /\ SetProc(p, [IdleProc EXCEPT !.pc = "lk_acquire", !.call = "task",
                                         !.ev = id,
                                         !.payload = events[id].payload])
    /\ taskRuns' = taskRuns + 1
    /\ SetLock(p, [NoLock EXCEPT !.lock_id = taskRuns + 1, !.start_time = now])
    /\ UNCHANGED <<fnVars, txVars, sigVars, dbVars, callVars, events, clock, celery, delivered, dispatched, coll0, txns0, redis, now>>

\* faulty variant: a wait that times out fails the delivery
LkAcquire_timeout_fails(p) ==
    /\ procs[p].pc = "lk_acquire"
    /\ IF now - lk[p].start_time < WAIT_TIMEOUT
       THEN \E redis_ok \in BOOLEAN :
              IF redis_ok
              THEN LET r == set_nx_ex(redis, now, lk[p].lock_id, LOCK_TIMEOUT)
                   IN  /\ r.result
                       /\ redis' = r.key
                       /\ SetLock(p, [lk[p] EXCEPT !.acquired = TRUE, !.how = "set"])
                       /\ SetProc(p, [procs[p] EXCEPT !.pc = "lk_read", !.attempt = 1])
              ELSE /\ redis' = redis
                   /\ SetLock(p, [lk[p] EXCEPT !.acquired = TRUE, !.how = "redis_error"])
                   /\ SetProc(p, [procs[p] EXCEPT !.pc = "lk_read", !.attempt = 1])
       ELSE /\ redis' = redis
            /\ SetLock(p, [lk[p] EXCEPT !.how = "timeout"])
            /\ SetProc(p, [procs[p] EXCEPT !.pc = "pe_fail", !.path = "LockError"])
    /\ UNCHANGED <<fnVars, txVars, sigVars, dbVars, callVars, events, queue, clock, celery, delivered, taskRuns, dispatched, coll0, txns0, now>>

\* faulty variant: the loop has no wait_timeout, it tries the set until it
\* succeeds
LkAcquire_no_timeout(p) ==
    /\ procs[p].pc = "lk_acquire"
    /\ \E redis_ok \in BOOLEAN :
          IF redis_ok
          THEN LET r == set_nx_ex(redis, now, lk[p].lock_id, LOCK_TIMEOUT)
               IN  /\ r.result
                   /\ redis' = r.key
                   /\ SetLock(p, [lk[p] EXCEPT !.acquired = TRUE, !.how = "set"])
                   /\ SetProc(p, [procs[p] EXCEPT !.pc = "lk_read", !.attempt = 1])
          ELSE /\ redis' = redis
               /\ SetLock(p, [lk[p] EXCEPT !.acquired = TRUE, !.how = "redis_error"])
               /\ SetProc(p, [procs[p] EXCEPT !.pc = "lk_read", !.attempt = 1])
    /\ UNCHANGED <<fnVars, txVars, sigVars, dbVars, callVars, events, queue, clock, celery, delivered, taskRuns, dispatched, coll0, txns0, now>>

\* one pass of the loop of _acquire_redis, and the entry into the guarded
\* block: processing_lock yields whatever acquire() returned.  A pass that
\* finds the key held sleeps and changes nothing.
LkAcquire(p) ==
    /\ procs[p].pc = "lk_acquire"
    /\ IF now - lk[p].start_time < WAIT_TIMEOUT
       THEN \E redis_ok \in BOOLEAN :
              IF redis_ok
              THEN LET r == set_nx_ex(redis, now, lk[p].lock_id, LOCK_TIMEOUT)
                   IN  /\ r.result
                       /\ redis' = r.key
                       /\ SetLock(p, [lk[p] EXCEPT !.acquired = TRUE, !.how = "set"])
                       /\ SetProc(p, [procs[p] EXCEPT !.pc = "lk_read", !.attempt = 1])
              ELSE \* the client raises: _acquire_db
                   /\ redis' = redis
                   /\ SetLock(p, [lk[p] EXCEPT !.acquired = TRUE, !.how = "redis_error"])
                   /\ SetProc(p, [procs[p] EXCEPT !.pc = "lk_read", !.attempt = 1])
       ELSE \* waited wait_timeout: acquire() returns False
            /\ redis' = redis
            /\ SetLock(p, [lk[p] EXCEPT !.how = "timeout"])
            /\ SetProc(p, [procs[p] EXCEPT !.pc = "lk_read", !.attempt = 1])
    /\ UNCHANGED <<fnVars, txVars, sigVars, dbVars, callVars, events, queue, clock, celery, delivered, taskRuns, dispatched, coll0, txns0, now>>

\* update_collection_from_webhook up to Collection.objects.get.  The first
\* call runs inside the guarded block: CollectionError leaves the block
\* through the release and is caught by "except Exception as lock_err",
\* which makes the second call; CollectionError from the second call reaches
\* the except clauses of process_event.
LkRead(p) ==
    /\ procs[p].pc = "lk_read"
    /\ IF coll.exists
       THEN /\ SetProc(p, [procs[p] EXCEPT !.pc = "lk_write", !.snap = coll])
            /\ lk' = lk
       ELSE /\ SetLock(p, [lk[p] EXCEPT !.raised = TRUE])
            /\ IF procs[p].attempt = 1
               THEN SetProc(p, [procs[p] EXCEPT !.pc = "lk_release", !.path = "lock_err"])
               ELSE SetProc(p, [procs[p] EXCEPT !.pc = "pe_fail", !.path = ErrCollectionNotFound])
    /\ UNCHANGED <<fnVars, txVars, sigVars, dbVars, callVars, events, queue, clock, celery, delivered, taskRuns, dispatched, coll0, txns0, redis, now>>

\* update_collection_from_webhook from the decision to the commit
LkWrite(p) ==
    /\ procs[p].pc = "lk_write"
    /\ LET extracted == extract_paywithaccount(events[procs[p].ev].payload)
           provider_ref == IF extracted.provider_ref = NULL THEN "" ELSE extracted.provider_ref
           r == WriteBack(coll, txns, procs[p].snap, provider_ref, process_event_status(extracted.status), FALSE)
       IN  /\ coll' = r.coll
           /\ txns' = r.txns
    /\ SetLock(p, [lk[p] EXCEPT !.applied = TRUE])
    /\ SetProc(p, [procs[p] EXCEPT !.pc = IF procs[p].attempt = 1 THEN "lk_release" ELSE "pe_mark"])
    /\ UNCHANGED <<fnVars, txVars, sigVars, callVars, events, queue, clock, celery, delivered, taskRuns, dispatched, coll0, txns0, redis, now>>

\* faulty variant: the release is no finally clause, an exception raised in
\* the guarded block leaves the scope without it
LkRelease_no_finally(p) ==
    /\ procs[p].pc = "lk_release"
    /\ IF ~lk[p].acquired
       THEN /\ redis' = redis
            /\ SetLock(p, [lk[p] EXCEPT !.released = "not_acquired"])
       ELSE IF procs[p].path = "lock_err"
       THEN /\ redis' = redis
            /\ SetLock(p, [lk[p] EXCEPT !.released = "skipped"])
       ELSE LET r == release_script(redis, now, lk[p].lock_id)
            IN  /\ redis' = r.key
                /\ SetLock(p, [lk[p] EXCEPT
                       !.acquired = FALSE,
                       !.released = IF r.result THEN "deleted" ELSE "not_owner"])
    /\ IF procs[p].path = "lock_err"
       THEN SetProc(p, [procs[p] EXCEPT !.pc = "lk_read", !.attempt = 2])
       ELSE SetProc(p, [procs[p] EXCEPT !.pc = "pe_mark"])
    /\ UNCHANGED <<fnVars, txVars, sigVars, dbVars, callVars, events, queue, clock, celery, delivered, taskRuns, dispatched, coll0, txns0, now>>

\* processing_lock's finally clause: ProcessingLock.release
LkRelease(p) ==
    /\ procs[p].pc = "lk_release"
    /\ IF ~lk[p].acquired
       THEN /\ redis' = redis
            /\ SetLock(p, [lk[p] EXCEPT !.released = "not_acquired"])
       ELSE LET r == release_script(redis, now, lk[p].lock_id)
            IN  /\ redis' = r.key
                /\ SetLock(p, [lk[p] EXCEPT
                       !.acquired = FALSE,
                       !.released = IF r.result THEN "deleted" ELSE "not_owner"])
    /\ IF procs[p].path = "lock_err"
       THEN SetProc(p, [procs[p] EXCEPT !.pc = "lk_read", !.attempt = 2])
       ELSE SetProc(p, [procs[p] EXCEPT !.pc = "pe_mark"])
    /\ UNCHANGED <<fnVars, txVars, sigVars, dbVars, callVars, events, queue, clock, celery, delivered, taskRuns, dispatched, coll0, txns0, now>>

\* time passes
Tick ==
    /\ \E d \in {WAIT_TIMEOUT, LOCK_TIMEOUT} :
          /\ now + d <= MaxTime
          /\ now' = now + d
    /\ UNCHANGED <<fnVars, txVars, sigVars, dbVars, callVars, hookVars, redis, lk>>

\* the create_collection transaction for "r1", begun before the provider
\* call that triggered the deliveries, commits: the rows become visible
CreateCommit ==
    /\ ~coll.exists
    /\ coll' = [exists |-> TRUE, status |-> "PENDING", provider_ref |-> NULL, needs_validation |-> FALSE]
    /\ txns' = [ty \in TxTypes |-> "PENDING"]
    /\ UNCHANGED <<fnVars, txVars, sigVars, callVars, hookVars, extVars>>

NextLock ==
    \/ \E p \in Procs :
        \/ LkStart(p)
        \/ LkAcquire(p)
        \/ LkRead(p)
        \/ LkWrite(p)
        \/ LkRelease(p)
        \/ PeMark(p)
        \/ PeFail(p)
    \/ Tick
    \/ CreateCommit

SpecLock == InitLock /\ [][NextLock]_vars

(* ProcessingLock.acquire on its own: the callers of acquire and the       *)
(* clock.  A process that has acquired stays in its guarded block, so the   *)
(* holder of the key never releases it.                                     *)

NextAcquire ==
    \/ \E p \in Procs :
        \/ LkStart(p)
        \/ LkAcquire(p)
    \/ Tick

\* time passes, and a pass of the loop of _acquire_redis whose client call
\* returns is eventually made (time.sleep(0.1) returns); nothing is assumed
\* of the passes whose client call raises
SpecAcquire ==
    /\ InitLock
    /\ [][NextAcquire]_vars
    /\ WF_vars(Tick)
    /\ \A p \in Procs : WF_vars(LkAcquire(p) /\ lk'[p].how # "redis_error")

-----------------------------------------------------------------------------
(* SpecTxn: update_collection_from_webhook statement by statement inside   *)
(* its transaction.atomic block, which may fail or crash at any point.     *)
(* coll and txns are the committed rows; tx holds the open transaction.    *)

InitTxn ==
    /\ fn = NoFn
    /\ px = NoParse
    /\ cc = NoCreate
    /\ coll \in [exists : {TRUE}, status : CollectionStatusChoices,
                 provider_ref : {NULL, "p1"}, needs_validation : {FALSE}]
    /\ txns \in [TxTypes -> {"PENDING", "SUCCESS", "none"}]
    /\ txns["DEBIT"] # "none"
    /\ last = NoCall
    /\ nCalls = 0
    /\ HookOff
    /\ ExtOff

\* faulty variant: no enclosing transaction, each statement commits by itself
StatementWrite_autocommit(committed, written) == written

\* a write made by a statement inside transaction.atomic: the committed row
\* stays as it is until the block commits
StatementWrite(committed, written) == committed

\* entry of the atomic block and Collection.objects.get
TxBegin(provider_ref, new_status) ==
    /\ tx.pc = "idle"
    /\ nCalls < MaxCalls
    /\ coll.exists
    /\ nCalls' = nCalls + 1
    /\ tx' = [pc |-> "tx_save", snap |-> coll, provider_ref |-> provider_ref,
              new_status |-> new_status, wcoll |-> coll, wtxns |-> txns,
              outcome |-> "none", at |-> "none", pre_coll |-> coll,
              pre_txns |-> txns]
    /\ UNCHANGED <<fnVars, dbVars, last, hookVars, lockVars, sigVars>>

\* collection.save(update_fields=update_fields)
TxSave ==
    /\ tx.pc = "tx_save"
    /\ LET r == WriteBack(tx.wcoll, tx.wtxns, tx.snap, tx.provider_ref, tx.new_status, FALSE)
       IN  /\ tx' = [tx EXCEPT !.wcoll = r.coll,
                               !.pc = IF r.admitted THEN "tx_bulk" ELSE "tx_commit"]
           /\ coll' = StatementWrite(coll, r.coll)
    /\ UNCHANGED <<fnVars, txns, callVars, hookVars, lockVars, sigVars>>

\* Transaction.objects.filter(collection=..., status="PENDING").update(...)
TxBulk ==
    /\ tx.pc = "tx_bulk"
    /\ LET r == WriteBack(tx.wcoll, tx.wtxns, tx.snap, tx.provider_ref, tx.new_status, FALSE)
       IN  /\ tx' = [tx EXCEPT !.wtxns = r.txns, !.pc = "tx_commit"]
           /\ txns' = StatementWrite(txns, r.txns)
    /\ UNCHANGED <<fnVars, coll, callVars, hookVars, lockVars, sigVars>>

\* the function returns: the atomic block commits all its writes together
TxCommit ==
    /\ tx.pc = "tx_commit"
    /\ coll' = tx.wcoll
    /\ txns' = tx.wtxns
    /\ tx' = [tx EXCEPT !.pc = "idle", !.outcome = "committed"]
    /\ UNCHANGED <<fnVars, callVars, hookVars, lockVars, sigVars>>

\* an exception leaves the block, or the process or connection dies: the
\* database rolls the transaction back
TxAbort ==
    /\ tx.pc \in {"tx_save", "tx_bulk", "tx_commit"}
    /\ tx' = [tx EXCEPT !.pc = "idle", !.outcome = "rolled_back", !.at = tx.pc]
    /\ UNCHANGED <<fnVars, dbVars, callVars, hookVars, lockVars, sigVars>>

NextTxn ==
    \/ \E provider_ref \in {"", "p2"}, new_status \in WebhookStatuses :
          TxBegin(provider_ref, new_status)
    \/ TxSave
    \/ TxBulk
    \/ TxCommit
    \/ TxAbort

SpecTxn == InitTxn /\ [][NextTxn]_vars

-----------------------------------------------------------------------------
(* SpecSig: deliveries received one after another through                  *)
(* WebhookService.receive_event and through the HTTP endpoint              *)
(* (PayWithAccountWebhookView.post -> receive_paywithaccount_event), with  *)
(* their signature header and raw body.  The payloads carry the keys that  *)
(* both parsers (_extract_paywithaccount, _extract_generic) read alike.    *)

SigProviders == {"paywithaccount", "flutterwave"}

\* hmac.new(key, msg, hashlib.sha256).hexdigest() for the keys "k1" (the
\* configured secret) and "k2" and the raw bodies "b1" and "b2": distinct
\* (key, msg) pairs have distinct digests
HmacSha256Hex(key, msg) ==
    CASE key = "k1" /\ msg = "b1" -> "mac_k1_b1"
      [] key = "k1" /\ msg = "b2" -> "mac_k1_b2"
      [] key = "k2" /\ msg = "b1" -> "mac_k2_b1"
      [] key = "k2" /\ msg = "b2" -> "mac_k2_b2"
      [] OTHER -> "mac_other"

\* signature header values: absent, empty, and digests under either key
SigHeaders == {NULL, "", HmacSha256Hex("k1", "b1"), HmacSha256Hex("k2", "b1")}

SigPayloads ==
    { [event_id |-> "e1", request_ref |-> "r1", status |-> "success", provider_ref |-> "p2"],
      [event_id |-> NULL, request_ref |-> "r1", status |-> "Failed", provider_ref |-> NULL] }

\* faulty variant: every signature is accepted
verify_signature_accept_all(secret, payload_str, signature_header, provider) == TRUE

\* WebhookService.verify_signature
verify_signature(secret, payload_str, signature_header, provider) ==
    IF ~Truthy(secret) THEN TRUE
    ELSE IF Lower(provider) \in {"paywithaccount", "onepipe"}
    THEN HmacSha256Hex(secret, payload_str) = signature_header
    ELSE TRUE

\* process_event run to completion with nothing else running: the rows and
\* the event status it leaves
ProcessInline(c, t, payload) ==
    LET extracted == extract_paywithaccount(payload)
        provider_ref == IF extracted.provider_ref = NULL THEN "" ELSE extracted.provider_ref
    IN  IF extracted.request_ref = NULL
        THEN [coll |-> c, txns |-> t, status |-> "FAILED", error |-> ErrMissingRequestRef]
        ELSE IF ~(c.exists /\ extracted.request_ref = "r1")
        THEN [coll |-> c, txns |-> t, status |-> "FAILED", error |-> ErrCollectionNotFound]
        ELSE LET r == WriteBack(c, t, c, provider_ref, process_event_status(extracted.status), FALSE)
             IN  [coll |-> r.coll, txns |-> r.txns, status |-> "PROCESSED", error |-> ""]

InitSig ==
    /\ fn = NoFn
    /\ px = NoParse
    /\ cc = NoCreate
    /\ \E h \in HookCollections :
          /\ coll = h.c
          /\ txns = h.t
          /\ coll0 = h.c
          /\ txns0 = h.t
    /\ last = NoCall
    /\ nCalls = 0
    /\ events = <<>>
    /\ queue = {}
    /\ procs = [p \in Procs |-> IdleProc]
    /\ clock = 0
    /\ celery \in BOOLEAN
    /\ delivered = <<>>
    /\ taskRuns = 0
    /\ dispatched = <<>>
    /\ LockOff
    /\ TxOff
    /\ webhook_secret \in {"", "k1"}
    /\ rcv = NoReceive
    /\ origin = <<>>

\* WebhookEvent.objects.create and the dispatch of processing: the task is
\* enqueued, or process_event runs inline when the task module does not import
StoreAndDispatch(event_id, request_ref, payload, delivery) ==
    LET id == Len(events) + 1
        row == NewEvent(event_id, request_ref, payload)
        r == ProcessInline(coll, txns, payload)
    IN  /\ origin' = Append(origin, delivery)
        /\ dispatched' = Append(dispatched, 1)
        /\ delivered' = Append(delivered, payload)
        /\ IF celery
           THEN /\ events' = Append(events, row)
                /\ queue' = queue \cup {id}
                /\ UNCHANGED <<dbVars, clock>>
           ELSE /\ events' = Append(events, [row EXCEPT !.status = r.status,
                                                        !.error = r.error,
                                                        !.processed_at = clock + 1])
                /\ clock' = clock + 1
                /\ coll' = r.coll
                /\ txns' = r.txns
                /\ queue' = queue

\* WebhookService.receive_event(provider, payload, signature_header,
\* payload_str), the whole call
receive_event(provider, payload, signature_header, payload_str) ==
    /\ Len(rcv.calls) < MaxReceives
    /\ LET delivery == [op |-> "receive_event", provider |-> provider,
                        signature_header |-> signature_header,
                        payload_str |-> payload_str]
           event_id == extract_event_id(payload)
           rows == RowsWithEventId(events, event_id)
       IN  IF /\ Truthy(signature_header)
              /\ Truthy(payload_str)
              /\ ~verify_signature(webhook_secret, payload_str, signature_header, provider)
           THEN \* raise WebhookError
                /\ rcv' = [calls |-> Append(rcv.calls, delivery), raised |-> TRUE, ret |-> 0, http |-> 0]
                /\ UNCHANGED <<dbVars, events, queue, clock, delivered, dispatched, origin>>
           ELSE IF event_id # NULL /\ rows # {}
           THEN /\ rcv' = [calls |-> Append(rcv.calls, delivery), raised |-> FALSE,
                           ret |-> CHOOSE i \in rows : TRUE, http |-> 0]
                /\ UNCHANGED <<dbVars, events, queue, clock, delivered, dispatched, origin>>
           ELSE /\ rcv' = [calls |-> Append(rcv.calls, delivery), raised |-> FALSE,
                           ret |-> Len(events) + 1, http |-> 0]
                /\ StoreAndDispatch(event_id, extract_paywithaccount(payload).request_ref,
                                    payload, delivery)
    /\ UNCHANGED <<fnVars, callVars, procs, celery, taskRuns, coll0, txns0, lockVars, txVars, webhook_secret>>

\* the flat payload as the parsed JSON object it stands for
AsJson(payload) ==
    LET v(x) == IF x = NULL THEN JAbsent ELSE JValue("str", x)
    IN  JDict([event_id |-> v(payload.event_id),
               request_ref |-> v(payload.request_ref),
               status |-> v(payload.status),
               provider_ref |-> v(payload.provider_ref)])

\* request bodies that are no well-formed event: a JSON array, and an object
\* whose meta is null
MalformedBodies ==
    { JValue("list", "[1]"),
      JDict([status |-> JValue("str", "success"), meta |-> PyNone]) }

\* WebhookService.receive_paywithaccount_event: the event is stored without
\* event_id and processing is dispatched
receive_paywithaccount_event(payload, signature, body) ==
    LET delivery == [op |-> "post", provider |-> "paywithaccount",
                     signature_header |-> signature, payload_str |-> body]
    IN  /\ rcv' = [calls |-> Append(rcv.calls, delivery), raised |-> FALSE,
                   ret |-> Len(events) + 1, http |-> 200]
        /\ StoreAndDispatch(NULL, extract_paywithaccount(payload).request_ref,
                            payload, delivery)

\* PayWithAccountWebhookView.post: the signature header (or '') and the
\* parsed body go to receive_paywithaccount_event; an exception it raises is
\* logged, and the response is 200 in every case
PayWithAccountWebhookView_post(json, signature, body) ==
    /\ Len(rcv.calls) < MaxReceives
    /\ IF PayloadParser_extract_paywithaccount(json).raised
       THEN /\ rcv' = [calls |-> Append(rcv.calls,
                                        [op |-> "post", provider |-> "paywithaccount",
                                         signature_header |-> signature,
                                         payload_str |-> body]),
                       raised |-> FALSE, ret |-> 0, http |-> 200]
            /\ UNCHANGED <<dbVars, events, queue, clock, delivered, dispatched, origin>>
       ELSE \E payload \in SigPayloads :
                /\ AsJson(payload) = json
                /\ receive_paywithaccount_event(payload, signature, body)
    /\ UNCHANGED <<fnVars, callVars, procs, celery, taskRuns, coll0, txns0, lockVars, txVars, webhook_secret>>

ReceiveEvent ==
    \E provider \in SigProviders, payload \in SigPayloads,
       signature_header \in SigHeaders, payload_str \in {NULL, "b1"} :
        receive_event(provider, payload, signature_header, payload_str)

Post ==
    \E json \in {AsJson(payload) : payload \in SigPayloads} \cup MalformedBodies,
       header \in SigHeaders :
        PayWithAccountWebhookView_post(json, IF header = NULL THEN "" ELSE header, "b1")

NextSig ==
    \/ ReceiveEvent
    \/ Post

SpecSig == InitSig /\ [][NextSig]_vars

-----------------------------------------------------------------------------
(* SpecParse: the extractors of webhooks/utils.py and PayloadParser as      *)
(* functions of a parsed JSON body and the provider name.                   *)

\* parsed bodies: a JSON array, null and a JSON string, and objects whose
\* keys hold the values listed per key
ParsePayloads ==
    {JValue("list", "[1]"), PyNone, JValue("str", "text")} \cup
    { JDict([event_id |-> event_id, event |-> event, id |-> id,
             request_ref |-> request_ref, status |-> status, meta |-> meta,
             data |-> data, transaction |-> transaction,
             some_other_field |-> some_other_field]) :
        event_id \in {JAbsent, JValue("str", "evt_123abc")},
        event \in {JAbsent, JValue("str", "evt_789ghi"), JDict(NoDict),
                   JDict([NoDict EXCEPT !["id"] = JLeaf("str", "fw_evt_999")])},
        id \in {JAbsent, JValue("int", "7")},
        request_ref \in {JAbsent, JValue("str", ""), JValue("str", "r1")},
        status \in {JAbsent, PyNone, JValue("str", "success")},
        meta \in {JAbsent, PyNone, JValue("str", "m"),
                  JDict([NoDict EXCEPT !["request_ref"] = JLeaf("str", "r2")])},
        data \in {JAbsent, JValue("list", "[]"),
                  JDict([NoDict EXCEPT !["status"] = JLeaf("str", "pending")])},
        transaction \in {JAbsent, JValue("int", "5")},
        some_other_field \in {JAbsent, JValue("str", "value")} }

InitParse ==
    /\ fn = NoFn
    /\ px \in {[payload |-> payload, provider |-> provider, phase |-> "input",
                result |-> NoExtraction] :
                  payload \in ParsePayloads, provider \in SigProviders}
    /\ cc = NoCreate
    /\ coll = NoCollection
    /\ txns = NoTransactions
    /\ last = NoCall
    /\ nCalls = 0
    /\ HookOff
    /\ ExtOff

\* utils.extract_event_id, utils.extract_request_ref, utils.extract_status and
\* PayloadParser.extract_from_payload applied to the payload
ExtractAll ==
    /\ px.phase = "input"
    /\ px' = [px EXCEPT
                !.phase = "done",
                !.result = [event_id |-> utils_extract_event_id(px.payload),
                            request_ref |-> utils_extract_request_ref(px.payload),
                            status |-> utils_extract_status(px.payload),
                            parsed |-> PayloadParser_extract_from_payload(
                                           px.payload, px.provider)]]
    /\ UNCHANGED <<fn, cc, dbVars, callVars, hookVars, extVars>>

NextParse == ExtractAll

SpecParse == InitParse /\ [][NextParse]_vars

-----------------------------------------------------------------------------
(* SpecCreate: create_collection calls of several users with and without    *)
(* idempotency keys, one after another, each a whole transaction; amount    *)
(* and goal are valid.  cc.rows is the Collection table, a row keeping the  *)
(* user, metadata.idempotency_key, the status, raw_response.status and the  *)
(* normalized pair stored in metadata.                                      *)

Users == {"u1", "u2"}

IdempotencyKeys == {NULL, "k1", "k2"}

\* values the provider response may hold under `status`
ResponseStatuses ==
    { PyNone, JValue("str", ""), JValue("str", "  "), JValue("int", "404"),
      JValue("str", "success"), JValue("str", "DECLINED"),
      JValue("str", "WaitingForOTP"), JValue("str", "weird") }

\* the Collection row create_collection stores
NewCollection(user, idempotency_key, provider_status) ==
    LET norm == normalize_provider_status(provider_status)
    IN  [user |-> user,
         idempotency_key |-> IF Truthy(idempotency_key)
                             THEN idempotency_key ELSE NULL,
         status |-> CreateStatus(norm),
         raw_status |-> provider_status,
         normalized_status |-> norm[1],
         needs_validation |-> norm[2]]

\* the Collection table is empty, or holds one Collection that an earlier
\* call of user u1 with key k2 created
InitCreate ==
    /\ fn = NoFn
    /\ px = NoParse
    /\ cc \in {NoCreate,
               [NoCreate EXCEPT
                  !.rows = <<NewCollection("u1", "k2", JValue("str", "success"))>>,
                  !.tx_rows = 2, !.provider_calls = 1]}
    /\ coll = NoCollection
    /\ txns = NoTransactions
    /\ last = NoCall
    /\ nCalls = 0
    /\ HookOff
    /\ ExtOff

\* faulty variant: the lookup filters on a metadata key that is never written
ExistingCollections_wrong_field(rows, user, idempotency_key) ==
    {i \in DOMAIN rows : rows[i].user = user /\ FALSE}

\* Collection.objects.filter(user=user, metadata__idempotency_key=key)
ExistingCollections(rows, user, idempotency_key) ==
    {i \in DOMAIN rows :
        rows[i].user = user /\ rows[i].idempotency_key = idempotency_key}

\* CollectionsService.create_collection with an idempotency key (or None)
create_collection_keyed(user, idempotency_key, provider_ok, provider_status, has_fee) ==
    /\ cc.n < MaxCreates
    /\ LET existing == ExistingCollections(cc.rows, user, idempotency_key)
           call == [user |-> user, idempotency_key |-> idempotency_key]
           row == NewCollection(user, idempotency_key, provider_status)
       IN  IF Truthy(idempotency_key) /\ existing # {}
           THEN \* .first(): return existing
                cc' = [cc EXCEPT !.n = cc.n + 1, !.call = call, !.path = "existing",
                                 !.ret = CHOOSE i \in existing :
                                            \A j \in existing : i <= j]
           ELSE IF ~provider_ok
           THEN \* pwa_client.transact raised: CollectionError, nothing is stored
                cc' = [cc EXCEPT !.n = cc.n + 1, !.call = call, !.path = "raised",
                                 !.provider_calls = cc.provider_calls + 1,
                                 !.ret = 0]
           ELSE cc' = [cc EXCEPT !.n = cc.n + 1, !.call = call, !.path = "created",
                                 !.provider_calls = cc.provider_calls + 1,
                                 !.rows = Append(cc.rows, row),
                                 !.tx_rows = cc.tx_rows + (IF has_fee THEN 2 ELSE 1),
                                 !.ret = Len(cc.rows) + 1]
    /\ UNCHANGED <<fn, px, dbVars, callVars, hookVars, extVars>>

CreateKeyed ==
    \E user \in Users, idempotency_key \in IdempotencyKeys, provider_ok \in BOOLEAN,
       provider_status \in ResponseStatuses, has_fee \in BOOLEAN :
        create_collection_keyed(user, idempotency_key, provider_ok, provider_status, has_fee)

NextCreate == CreateKeyed

SpecCreate == InitCreate /\ [][NextCreate]_vars

-----------------------------------------------------------------------------
(* ProcessingLock without a lock backend (has_redis() is false, so         *)
(* redis_client is None): two lock objects for the same key, one per       *)
(* process, whose acquire and release methods are called in any order      *)

InitNoBackend ==
    /\ fn = NoFn
    /\ px = NoParse
    /\ cc = NoCreate
    /\ coll = NoCollection
    /\ txns = NoTransactions
    /\ last = [op |-> "none", proc |-> "none", ret |-> FALSE, pre |-> NoLock]
    /\ nCalls = 0
    /\ HookOff
    /\ redis = NoKey
    /\ now = 0
    /\ lk = [p \in Procs |-> [NoLock EXCEPT !.lock_id = IF p = "w1" THEN 1 ELSE 2]]
    /\ TxOff
    /\ SigOff

\* faulty variant: the fallback refuses a key another lock object holds
NbAcquire_exclusive(p) ==
    LET ret == \A q \in Procs \ {p} : ~lk[q].acquired
    IN  /\ SetLock(p, [lk[p] EXCEPT !.acquired = ret, !.how = "db"])
        /\ last' = [op |-> "acquire", proc |-> p, ret |-> ret, pre |-> lk[p]]
        /\ UNCHANGED <<fnVars, dbVars, nCalls, hookVars, redis, now, txVars, sigVars>>

\* ProcessingLock.acquire with redis_client None: _acquire_db sets acquired
\* and returns True
NbAcquire(p) ==
    /\ SetLock(p, [lk[p] EXCEPT !.acquired = acquire_db("r1"), !.how = "db"])
    /\ last' = [op |-> "acquire", proc |-> p, ret |-> acquire_db("r1"), pre |-> lk[p]]
    /\ UNCHANGED <<fnVars, dbVars, nCalls, hookVars, redis, now, txVars, sigVars>>

\* ProcessingLock.release with redis_client None
NbRelease(p) ==
    /\ IF ~lk[p].acquired
       THEN /\ SetLock(p, [lk[p] EXCEPT !.released = "not_acquired"])
            /\ last' = [op |-> "release", proc |-> p, ret |-> FALSE, pre |-> lk[p]]
       ELSE /\ SetLock(p, [lk[p] EXCEPT !.acquired = FALSE, !.released = "db"])
            /\ last' = [op |-> "release", proc |-> p, ret |-> TRUE, pre |-> lk[p]]
    /\ UNCHANGED <<fnVars, dbVars, nCalls, hookVars, redis, now, txVars, sigVars>>

NextNoBackend ==
    \E p \in Procs :
        \/ NbAcquire(p)
        \/ NbRelease(p)

SpecNoBackend == InitNoBackend /\ [][NextNoBackend]_vars

-----------------------------------------------------------------------------
(* Claims on the state machine and on sequential webhook updates *)

\* the ranking the claims state: INITIATED=1, PENDING=2, PROCESSING=3,
\* SUCCESS=FAILED=4, anything else 0
ClaimRank(s) ==
    IF s = "INITIATED" THEN 1
    ELSE IF s = "PENDING" THEN 2
    ELSE IF s = "PROCESSING" THEN 3
    ELSE IF s \in {"SUCCESS", "FAILED"} THEN 4
    ELSE 0

\* C1: over update_collection_from_webhook calls without override applied
\* one after another, every committed change of Collection.status is
\* non-decreasing in rank, and a status of SUCCESS or FAILED never changes.
C1_Monotonic ==
    [][(nCalls' # nCalls /\ ~last'.allow_override) =>
          /\ ClaimRank(coll'.status) >= ClaimRank(coll.status)
          /\ (coll.status \in {"SUCCESS", "FAILED"} =>
                coll'.status = coll.status)]_vars

\* a PENDING or INITIATED Collection advanced to a terminal status and a
\* later non-override call with a different status was applied to it
C1_Witness ==
    /\ last.op = "webhook"
    /\ ~last.allow_override
    /\ ~last.raised
    /\ last.pre_status \in {"SUCCESS", "FAILED"}
    /\ WebhookStatusMap(last.raw) # last.pre_status
    /\ coll.status = last.pre_status
    /\ nCalls >= 2

\* C2: should_update(current, proposed, allow_override=False) is False for
\* every terminal current status and every proposed status different from it.
C2_TerminalSticky ==
    (fn.phase = "done" /\ fn.cur \in {"SUCCESS", "FAILED"} /\ fn.new # fn.cur
       /\ ~fn.allow_override) => fn.result = FALSE

C2_Witness ==
    /\ fn.phase = "done"
    /\ fn.cur = "FAILED"
    /\ fn.new = "SUCCESS"
    /\ ~fn.allow_override
    /\ fn.result = FALSE

\* the status a PENDING Transaction must take for a new Collection status
ClaimTxStatus(s) ==
    IF s = "SUCCESS" THEN "SUCCESS"
    ELSE IF s \in {"FAILED", "CANCELLED"} THEN "FAILED"
    ELSE "PENDING"

\* C6: after an admitted update_collection_from_webhook call, every
\* Transaction that was PENDING before has the status mapped from the new
\* Collection status (SUCCESS->SUCCESS, FAILED/CANCELLED->FAILED, else
\* PENDING) and every Transaction that was SUCCESS or FAILED is unchanged.
C6_Cascade ==
    (last.op = "webhook" /\ last.admitted) =>
        \A ty \in TxTypes :
            /\ last.pre_txns[ty] = "PENDING" =>
                  txns[ty] = ClaimTxStatus(coll.status)
            /\ last.pre_txns[ty] # "PENDING" => txns[ty] = last.pre_txns[ty]

\* an admitted move to CANCELLED with one PENDING and one settled Transaction
C6_Witness ==
    /\ last.op = "webhook"
    /\ last.admitted
    /\ coll.status = "CANCELLED"
    /\ last.pre_status # "CANCELLED"
    /\ last.pre_txns["DEBIT"] = "PENDING"
    /\ txns["DEBIT"] = "FAILED"
    /\ last.pre_txns["FEE"] = "SUCCESS"
    /\ txns["FEE"] = "SUCCESS"

\* C7: when should_update rejects the transition, the call leaves
\* Collection.status and the status of every Transaction unchanged.
C7_RejectedFrame ==
    (last.op = "webhook" /\ ~last.raised /\ ~last.admitted) =>
        /\ coll.status = last.pre_status
        /\ txns = last.pre_txns

\* a 'failed' webhook for a Collection at SUCCESS with DEBIT and FEE at
\* SUCCESS, and a rejected webhook for a Collection with a PENDING Transaction
C7_Witness ==
    /\ last.op = "webhook"
    /\ ~last.raised
    /\ ~last.admitted
    /\ last.raw = "Failed"
    /\ coll.status = "SUCCESS"
    /\ txns["DEBIT"] = "SUCCESS"
    /\ txns["FEE"] = "SUCCESS"

C7_WitnessPending ==
    /\ last.op = "webhook"
    /\ ~last.raised
    /\ ~last.admitted
    /\ last.pre_txns["DEBIT"] = "PENDING"

\* C8: in every committed state reached by create_collection, webhook
\* processing without override, validate_collection and
\* query_collection_status, a Collection at SUCCESS has no FAILED or PENDING
\* Transaction and a Collection at FAILED has no SUCCESS or PENDING one.
C8_ViewsAgree ==
    coll.exists =>
        /\ coll.status = "SUCCESS" =>
              \A ty \in TxTypes : txns[ty] \notin {"FAILED", "PENDING"}
        /\ coll.status = "FAILED" =>
              \A ty \in TxTypes : txns[ty] \notin {"SUCCESS", "PENDING"}

-----------------------------------------------------------------------------
(* Claims on webhook ingestion *)

Quiescent == queue = {} /\ \A p \in Procs : procs[p].pc = "idle"

\* Collection and Transaction rows after one delivery of payload alone
ApplyOnce(c, t, payload) ==
    LET extracted == extract_paywithaccount(payload)
        provider_ref == IF extracted.provider_ref = NULL THEN "" ELSE extracted.provider_ref
    IN  IF c.exists /\ extracted.request_ref = "r1"
        THEN LET r == WriteBack(c, t, c, provider_ref, process_event_status(extracted.status), FALSE)
             IN  [coll |-> r.coll, txns |-> r.txns]
        ELSE [coll |-> c, txns |-> t]

\* C3: two receive_event calls with the same payload P carrying event id E,
\* sequential or interleaved, leave exactly one WebhookEvent with event_id E
\* and the Collection and Transaction rows a single call leaves.
C3_IdempotentDelivery ==
    (/\ Quiescent
     /\ Len(delivered) = 2
     /\ delivered[1] = delivered[2]
     /\ delivered[1].event_id # NULL)
    => /\ Cardinality(RowsWithEventId(events, delivered[1].event_id)) = 1
       /\ coll = ApplyOnce(coll0, txns0, delivered[1]).coll
       /\ txns = ApplyOnce(coll0, txns0, delivered[1]).txns

\* both calls passed the existence check, one lost the insert race, and the
\* single processing moved the Collection from PENDING to SUCCESS
C3_Witness ==
    /\ Quiescent
    /\ Len(delivered) = 2
    /\ delivered[1] = delivered[2]
    /\ delivered[1].event_id = "e1"
    /\ \E p \in Procs : procs[p].path = "race"
    /\ coll0.status = "PENDING"
    /\ coll.status = "SUCCESS"
    /\ \A ty \in TxTypes : txns[ty] = "SUCCESS"

\* C4: with the fallback lock, for every interleaving of two deliveries'
\* reads and writes, a committed Collection status of SUCCESS or FAILED is
\* never replaced by a different status.
C4_TerminalKept ==
    [][coll.status \in {"SUCCESS", "FAILED"} => coll'.status = coll.status]_vars

\* C5: once a stored WebhookEvent is PROCESSED or FAILED, no later
\* process_event invocation writes its status, error or processed_at.
C5_LeavesReceivedOnce ==
    [][\A i \in DOMAIN events :
          events[i].status # "RECEIVED" => events'[i] = events[i]]_vars

\* C9: a receive_event call whose event_id already has a WebhookEvent
\* returns that row, and the call changes no WebhookEvent, stores none,
\* dispatches no processing and changes no Collection or Transaction row.
C9_DuplicateFrame ==
    [][\A p \in Procs :
          LET event_id == procs[p].payload.event_id
              rows == {i \in DOMAIN events : events[i].event_id = event_id}
          IN  (/\ procs[p].pc = "rcv_check"
               /\ procs'[p] # procs[p]
               /\ event_id # NULL
               /\ rows # {})
              => /\ procs'[p].pc = "idle"
                 /\ procs'[p].ret \in rows
                 /\ events' = events
                 /\ queue' = queue
                 /\ dispatched' = dispatched
                 /\ coll' = coll
                 /\ txns' = txns]_vars

\* a call returned the existing, already processed row of its event_id
C9_Witness ==
    \E p \in Procs :
        /\ procs[p].path = "duplicate"
        /\ procs[p].pc = "idle"
        /\ procs[p].ret \in DOMAIN events
        /\ events[procs[p].ret].status = "PROCESSED"
        /\ events[procs[p].ret].event_id = procs[p].payload.event_id

\* C10: when two receive_event calls with the same event_id race to insert,
\* one row is stored; the loser returns the winner's row without raising,
\* inserting or dispatching, so processing is dispatched once per row.
C10_InsertRace ==
    /\ \A i, j \in DOMAIN events :
          (events[i].event_id = events[j].event_id /\ events[i].event_id # NULL)
             => i = j
    /\ \A i \in DOMAIN dispatched : dispatched[i] <= 1
    /\ \A p \in Procs :
          procs[p].path = "race" =>
             /\ procs[p].pc = "idle"
             /\ procs[p].ret \in DOMAIN events
             /\ events[procs[p].ret].event_id = procs[p].payload.event_id
             /\ procs[p].ev = 0

\* the loser returned the winner's row while that row was still RECEIVED
C10_Witness ==
    \E p \in Procs :
        /\ procs[p].path = "race"
        /\ procs[p].ret \in DOMAIN events
        /\ events[procs[p].ret].status = "RECEIVED"
        /\ dispatched[procs[p].ret] = 1
        /\ Len(events) = 1

-----------------------------------------------------------------------------
(* Claims on the processing lock (SpecLock) *)

\* process p is inside update_collection_from_webhook
InUpdate(p) == procs[p].pc \in {"lk_read", "lk_write"}

\* C11: with the lock backend answering, two process_event executions for
\* request_ref "r1" are never both inside update_collection_from_webhook.
C11_MutualExclusion ==
    \A p, q \in Procs :
        (/\ p # q
         /\ lk[p].how # "redis_error"
         /\ lk[q].how # "redis_error")
        => ~(InUpdate(p) /\ InUpdate(q))

\* C12: a release step deletes the key exactly when the releasing lock
\* object acquired and the key still holds its lock_id; in every other case
\* (expired and re-acquired by another process, or never acquired) the key
\* is left as it is.
C12_ReleaseOwnToken ==
    [][\A p \in Procs :
         (procs[p].pc = "lk_release" /\ procs'[p].pc # "lk_release")
         => IF lk[p].acquired /\ Live(redis, now) /\ redis.token = lk[p].lock_id
            THEN redis' = NoKey
            ELSE redis' = redis]_vars

\* a lock that was set, expired and was re-acquired by the other process has
\* been released, and the other process's key is still in place
C12_Witness ==
    \E p, q \in Procs :
        /\ p # q
        /\ lk[p].how = "set"
        /\ lk[p].released = "not_owner"
        /\ lk[q].how = "set"
        /\ Live(redis, now)
        /\ redis.token = lk[q].lock_id

\* C13: a process_event call whose acquire() timed out, and whose update
\* call did not raise, does not take the FAILED exit; when it has returned
\* it has committed the update and its event is PROCESSED.
C13_TimeoutStillProcesses ==
    \A p \in Procs :
        (lk[p].how = "timeout" /\ ~lk[p].raised)
        => /\ procs[p].pc # "pe_fail"
           /\ procs[p].path # "FAILED"
           /\ procs[p].pc = "idle" =>
                 /\ procs[p].path = "PROCESSED"
                 /\ lk[p].applied
                 /\ events[procs[p].ev].status = "PROCESSED"
                 /\ lk[p].released = "not_acquired"

\* a call waited out wait_timeout, then moved the Collection off PENDING and
\* returned with its event PROCESSED
C13_Witness ==
    \E p \in Procs :
        /\ lk[p].how = "timeout"
        /\ ~lk[p].raised
        /\ procs[p].pc = "idle"
        /\ lk[p].applied
        /\ events[procs[p].ev].status = "PROCESSED"
        /\ coll0.status = "PENDING"
        /\ coll.status # "PENDING"

-----------------------------------------------------------------------------
(* Claims on the transaction of update_collection_from_webhook (SpecTxn) *)

\* C14: every step that changes the committed Collection status also sets,
\* in the same step, each Transaction that was PENDING to the status mapped
\* from the new Collection status; a transaction that fails or crashes
\* leaves the committed rows as they were when it began.
C14_CommitTogether ==
    [][/\ coll'.status # coll.status =>
             \A ty \in TxTypes :
                 txns[ty] = "PENDING" => txns'[ty] = ClaimTxStatus(coll'.status)
       /\ (tx.pc # "idle" /\ tx'.pc = "idle" /\ tx'.outcome = "rolled_back") =>
             /\ coll' = tx.pre_coll
             /\ txns' = tx.pre_txns]_vars

\* the call failed after the Collection write (PENDING to SUCCESS) and before
\* the Transaction update; the committed rows are those from before the call
C14_Witness ==
    /\ tx.pc = "idle"
    /\ tx.outcome = "rolled_back"
    /\ tx.at = "tx_bulk"
    /\ tx.pre_coll.status = "PENDING"
    /\ tx.wcoll.status = "SUCCESS"
    /\ tx.pre_txns["DEBIT"] = "PENDING"
    /\ coll = tx.pre_coll
    /\ txns = tx.pre_txns

-----------------------------------------------------------------------------
(* Claims on the provider status poll (SpecOps) *)

\* C15: a query_collection_status call never changes a Collection that is
\* SUCCESS or FAILED to a different status and never moves a Collection to
\* a lower-ranked status.
C15_PollStateMachine ==
    [][(nCalls' # nCalls /\ last'.op = "query" /\ coll.exists) =>
          /\ (coll.status \in {"SUCCESS", "FAILED"} =>
                coll'.status = coll.status)
          /\ ClaimRank(coll'.status) >= ClaimRank(coll.status)]_vars

-----------------------------------------------------------------------------
(* Claims on signature verification (SpecSig) *)

\* the delivery's signature header is present and is the HMAC-SHA256 of its
\* raw body under the configured secret
ClaimSigned(delivery) ==
    /\ Truthy(delivery.signature_header)
    /\ Truthy(delivery.payload_str)
    /\ delivery.signature_header = HmacSha256Hex(webhook_secret, delivery.payload_str)

\* C16: with a webhook secret configured, every stored WebhookEvent was
\* stored by a delivery whose signature header was present and matched the
\* HMAC-SHA256 of its raw body.
C16_StoredOnlyIfSigned ==
    Truthy(webhook_secret) =>
        \A i \in DOMAIN events : ClaimSigned(origin[i])

\* C17: a receive_event call given a non-empty signature header and raw
\* body that do not verify (secret configured, HMAC provider, header not
\* the digest of the body) raises, and stores, enqueues, processes and
\* changes nothing.
C17_BadSignatureRaises ==
    [][(/\ Len(rcv'.calls) = Len(rcv.calls) + 1
        /\ rcv'.calls[Len(rcv'.calls)].op = "receive_event"
        /\ Truthy(webhook_secret)
        /\ rcv'.calls[Len(rcv'.calls)].provider \in {"paywithaccount", "onepipe"}
        /\ Truthy(rcv'.calls[Len(rcv'.calls)].signature_header)
        /\ Truthy(rcv'.calls[Len(rcv'.calls)].payload_str)
        /\ ~ClaimSigned(rcv'.calls[Len(rcv'.calls)]))
       => /\ rcv'.raised
          /\ UNCHANGED <<events, queue, dispatched, origin, coll, txns, clock>>]_vars

\* after a delivery was stored, a receive_event call signed under another
\* key raised and left the single event row as it was
C17_Witness ==
    /\ Len(rcv.calls) = 2
    /\ rcv.raised
    /\ rcv.calls[2].op = "receive_event"
    /\ rcv.calls[2].signature_header = HmacSha256Hex("k2", "b1")
    /\ rcv.calls[2].payload_str = "b1"
    /\ webhook_secret = "k1"
    /\ Len(events) = 1

-----------------------------------------------------------------------------
(* Claims on the outcomes of process_event *)

\* the error text is non-empty and contains the word "request_ref"
ClaimMentionsRequestRef(text) ==
    text \in {"Unexpected error: Could not extract request_ref from webhook payload",
              "CollectionError: Collection not found for request_ref=r1"}

\* the error text starts with the name of the exception class
ClaimNamesClass(text, class) ==
    /\ class = "CollectionError"
    /\ text = "CollectionError: Collection not found for request_ref=r1"

\* C18: process_event on an event whose stored payload yields no
\* request_ref goes from the parse straight to the failure exit without
\* calling update_collection_from_webhook, leaves the Collection and
\* Transaction rows alone, marks the event FAILED with a non-empty error
\* mentioning request_ref, and returns.
C18_MissingRequestRef ==
    [][\A p \in Procs :
         (/\ procs'[p] # procs[p]
          /\ procs[p].pc \in {"pe_load", "pe_fail"}
          /\ events[procs[p].ev].payload.request_ref = NULL)
         => /\ UNCHANGED dbVars
            /\ procs'[p].attempt = 0
            /\ procs[p].pc = "pe_load" =>
                  /\ procs'[p].pc = "pe_fail"
                  /\ events' = events
            /\ procs[p].pc = "pe_fail" =>
                  /\ procs'[p].pc = "idle"
                  /\ procs'[p].path = "FAILED"
                  /\ events'[procs[p].ev].status = "FAILED"
                  /\ events'[procs[p].ev].error # ""
                  /\ ClaimMentionsRequestRef(events'[procs[p].ev].error)]_vars

\* a stored event without request_ref was processed: it is FAILED, its error
\* mentions request_ref, and the PENDING Collection is as it was
C18_Witness ==
    \E p \in Procs :
        /\ procs[p].pc = "idle"
        /\ procs[p].path = "FAILED"
        /\ events[procs[p].ev].payload.request_ref = NULL
        /\ events[procs[p].ev].status = "FAILED"
        /\ ClaimMentionsRequestRef(events[procs[p].ev].error)
        /\ coll0.status = "PENDING"
        /\ coll = coll0
        /\ txns = txns0

\* C19: a process_event call in which update_collection_from_webhook raised
\* CollectionError returns with its event FAILED, an error text naming the
\* exception class, and processed_at set.
C19_RaiseEndsFailed ==
    \A p \in Procs :
        (lk[p].raised /\ procs[p].pc = "idle")
        => /\ procs[p].path = "FAILED"
           /\ events[procs[p].ev].status = "FAILED"
           /\ ClaimNamesClass(events[procs[p].ev].error, "CollectionError")
           /\ events[procs[p].ev].processed_at # 0

\* C20: when the state machine rejects the delivery's transition, the update
\* step raises nothing (it proceeds to the PROCESSED exit and leaves the
\* Collection status and the Transactions as they are), and the exit marks
\* the event PROCESSED.
C20_RejectedIsProcessed ==
    [][\A p \in Procs :
         /\ (/\ procs'[p] # procs[p]
             /\ procs[p].pc = "pe_write"
             /\ ~should_update(procs[p].snap.status,
                               WebhookStatusMap(extract_paywithaccount(events[procs[p].ev].payload).status),
                               FALSE))
            => /\ procs'[p].pc = "pe_mark"
               /\ coll'.status = coll.status
               /\ txns' = txns
         /\ (procs'[p] # procs[p] /\ procs[p].pc = "pe_mark")
            => /\ procs'[p].pc = "idle"
               /\ procs'[p].path = "PROCESSED"
               /\ events'[procs[p].ev].status = "PROCESSED"
               /\ events'[procs[p].ev].error = ""]_vars

\* a 'Failed' delivery for a Collection that is SUCCESS was processed: the
\* Collection is still SUCCESS and the event is PROCESSED
C20_Witness ==
    \E p \in Procs :
        /\ procs[p].pc = "idle"
        /\ procs[p].path = "PROCESSED"
        /\ events[procs[p].ev].payload.status = "Failed"
        /\ events[procs[p].ev].status = "PROCESSED"
        /\ coll0.status = "SUCCESS"
        /\ coll.status = "SUCCESS"
        /\ txns = txns0

-----------------------------------------------------------------------------
(* Claims on should_update as a function (SpecFn) *)

\* the reference decision: True if current = proposed; otherwise True if
\* allow_override; otherwise False if current is SUCCESS or FAILED; otherwise
\* True exactly when rank(proposed) >= rank(current)
ClaimDecision(current, proposed, allow_override) ==
    IF current = proposed THEN TRUE
    ELSE IF allow_override THEN TRUE
    ELSE IF current \in {"SUCCESS", "FAILED"} THEN FALSE
    ELSE ClaimRank(proposed) >= ClaimRank(current)

\* C21: for every pair of the seven statuses and both values of
\* allow_override, should_update returns the reference decision.
C21_ReferenceDecision ==
    fn.phase = "done" =>
        fn.result = ClaimDecision(fn.cur, fn.new, fn.allow_override)

\* a move between two rank-0 statuses, which the rule admits, was evaluated
C21_Witness ==
    /\ fn.phase = "done"
    /\ fn.cur = "CANCELLED"
    /\ fn.new = "UNKNOWN"
    /\ ~fn.allow_override
    /\ fn.result = TRUE

-----------------------------------------------------------------------------
(* Claims on the HTTP webhook endpoint (SpecSig) *)

\* rows stored for deliveries posted to the HTTP endpoint
ClaimPostRows == {i \in 1..Len(events) : origin[i].op = "post"}

\* C22: a delivery posted to the HTTP endpoint is stored with the event id of
\* its payload, and no two stored rows of posted deliveries carry the same
\* payload event id.
C22_PostDeduplicated ==
    \A i \in ClaimPostRows :
        /\ events[i].event_id = extract_event_id(events[i].payload)
        /\ \A j \in ClaimPostRows :
              (extract_event_id(events[i].payload) # NULL
                 /\ extract_event_id(events[j].payload)
                      = extract_event_id(events[i].payload)) => i = j

\* C23: every success acknowledgement of the HTTP endpoint is for a delivery
\* whose WebhookEvent row was stored.
C23_AckMeansStored ==
    rcv.http = 200 =>
        /\ rcv.ret \in DOMAIN events
        /\ origin[rcv.ret] = rcv.calls[Len(rcv.calls)]

-----------------------------------------------------------------------------
(* Claims on the status process_event hands on (SpecHook) *)

\* the status process_event passes to update_collection_from_webhook for a
\* stored payload
ClaimPassedStatus(payload) ==
    process_event_status(extract_paywithaccount(payload).status)

\* C24: whenever process_event is about to call
\* update_collection_from_webhook for an event whose payload carries no
\* status, the status it passes is "pending".
C24_MissingStatusIsPending ==
    \A p \in Procs :
        (procs[p].pc = "pe_write" /\ events[procs[p].ev].payload.status = NULL)
            => ClaimPassedStatus(events[procs[p].ev].payload) = "pending"

-----------------------------------------------------------------------------
(* Claims on the payload extractors (SpecParse) *)

\* the payload is an object whose event key holds an object with an id and
\* whose keys event_id and eventId are absent
ClaimNestedEventId ==
    /\ px.payload.t = "dict"
    /\ px.payload.d["event_id"].t = "absent"
    /\ px.payload.d["event"].t = "dict"
    /\ px.payload.d["event"].d["id"].t = "str"

\* C25: extract_event_id returns the nested event.id for a payload whose
\* event key holds an object with an id.
C25_NestedEventId ==
    (px.phase = "done" /\ ClaimNestedEventId)
        => px.result.event_id = px.payload.d["event"].d["id"].s

\* C26: no extractor raises: on every payload, the utils helpers and
\* PayloadParser.extract_from_payload return without an exception.
C26_ExtractorsNeverRaise ==
    px.phase = "done" => ~px.result.parsed.raised

-----------------------------------------------------------------------------
(* Claims on create_collection *)

\* C28: right after create_collection returned, the Collection has status
\* INITIATED or PENDING and its DEBIT and FEE Transactions are PENDING.
C28_StartsInitiatedOrPending ==
    (last.op = "create" /\ ~last.raised) =>
        /\ coll.status \in {"INITIATED", "PENDING"}
        /\ \A ty \in TxTypes : txns[ty] \in {"PENDING", "none"}

\* keys of DEFAULT_STATUS_MAP
ClaimMapKeys ==
    {"SUCCESS", "SUCCESSFUL", "COMPLETED", "APPROVED", "CONFIRMED", "SETTLED",
     "PAID", "PROCESSED", "FAILED", "ERROR", "DECLINED", "REJECTED",
     "CANCELLED", "TIMEOUT", "EXPIRED", "ABORTED", "INVALID", "PENDING",
     "PROCESSING", "INITIATED", "IN_PROGRESS", "AWAITING", "QUEUED",
     "WAITINGFOROTP", "WAITING_FOR_OTP", "OTP_PENDING", "PENDINGVALIDATION",
     "PENDING_VALIDATION", "VALIDATION_REQUIRED", "AWAITING_VALIDATION",
     "REQUIRES_OTP", "OTP_REQUIRED"}

\* the value is a string that, trimmed and upper-cased, is a key of the mapping
ClaimIsMapKey(raw_status) ==
    raw_status.t = "str" /\ Strip(Upper(raw_status.s)) \in ClaimMapKeys

\* C27: for every value of the provider's status (None, empty, blank, not a
\* string, known or unknown in any letter case), create_collection gets from
\* normalize_provider_status a pair of one of SUCCESS, FAILED, PENDING and a
\* boolean; a value that is not a key of the mapping yields (PENDING, False).
C27_NormalizeTotal ==
    \A i \in DOMAIN cc.rows :
        /\ cc.rows[i].normalized_status \in {"SUCCESS", "FAILED", "PENDING"}
        /\ cc.rows[i].needs_validation \in BOOLEAN
        /\ ~ClaimIsMapKey(cc.rows[i].raw_status) =>
              /\ cc.rows[i].normalized_status = "PENDING"
              /\ ~cc.rows[i].needs_validation

\* a non-string status and an unknown status string were normalized
C27_Witness ==
    /\ \E i \in DOMAIN cc.rows :
          /\ cc.rows[i].raw_status.t = "int"
          /\ cc.rows[i].normalized_status = "PENDING"
    /\ \E i \in DOMAIN cc.rows :
          /\ cc.rows[i].raw_status = JValue("str", "weird")
          /\ cc.rows[i].normalized_status = "PENDING"

\* C29: once a Collection of user U carries idempotency key K, every
\* create_collection call by U with K returns that Collection, calls the
\* provider no further time and adds no Collection or Transaction row.
C29_IdempotentCreate ==
    [][\A i \in DOMAIN cc.rows :
          (/\ cc'.n = cc.n + 1
           /\ cc.rows[i].idempotency_key # NULL
           /\ cc'.call.user = cc.rows[i].user
           /\ cc'.call.idempotency_key = cc.rows[i].idempotency_key)
          => /\ cc'.ret = i
             /\ cc'.rows = cc.rows
             /\ cc'.tx_rows = cc.tx_rows
             /\ cc'.provider_calls = cc.provider_calls]_vars

\* a keyed call returned the Collection of an earlier call while the user
\* holds another Collection as well
C29_Witness ==
    /\ cc.path = "existing"
    /\ cc.ret = 2
    /\ cc.rows[1].user = cc.rows[2].user

-----------------------------------------------------------------------------
(* Claims on rejected and unrecognized webhook statuses (SpecSeq) *)

\* C31: an update_collection_from_webhook call whose transition the state
\* machine rejects leaves the Collection row as it was, provider_ref included.
C31_RejectedKeepsRow ==
    [][(nCalls' # nCalls /\ ~last'.raised /\ ~last'.admitted)
          => coll' = coll]_vars

\* C32: a webhook delivery without override applied to a Collection whose
\* status is one of PENDING, INITIATED, PROCESSING, SUCCESS, FAILED, CANCELLED
\* leaves a status of that set.
C32_StatusInChoices ==
    [][(nCalls' # nCalls /\ ~last'.allow_override
          /\ coll.status \in CollectionStatusChoices \cup {"PROCESSING"})
          => coll'.status \in CollectionStatusChoices \cup {"PROCESSING"}]_vars

(* Claims on the calls process_event makes (SpecLock) *)

\* C33: each process_event invocation calls update_collection_from_webhook
\* at most once, also when that call raises inside the guarded block: no
\* invocation is ever in its second call
C33_UpdateCalledOnce ==
    \A p \in Procs : procs[p].attempt <= 1

(* Claims on redelivery after a failed processing (SpecHook) *)

\* C34: a redelivery of an event whose stored row ended FAILED is processed
\* as a new attempt: receive_event does not return it as a duplicate
C34_FailedIsReprocessed ==
    [][\A p \in Procs :
          (/\ procs[p].pc = "rcv_check"
           /\ procs'[p].pc # "rcv_check"
           /\ extract_event_id(procs[p].payload) # NULL
           /\ \E i \in RowsWithEventId(events, extract_event_id(procs[p].payload)) :
                 events[i].status = "FAILED")
          => procs'[p].path # "duplicate"]_vars

(* Claims on the progress of stored events (SpecHookFair) *)

\* event i sits in the task queue and no call is processing it
ClaimWaiting(i) ==
    /\ i \in queue
    /\ \A p \in Procs : procs[p].ev # i \/ procs[p].pc \in {"idle", "rcv_check", "rcv_insert"}

ClaimSettled(i) ==
    i \in DOMAIN events /\ events[i].status \in {"PROCESSED", "FAILED"}

\* C35: every stored WebhookEvent whose processing is executed, from the
\* queue or inline, eventually reaches PROCESSED or FAILED: a stored event
\* that is not waiting in the queue for a worker leads to a settled event
\* (or to one waiting in the queue)
C35_EventuallySettled ==
    \A i \in 1..MaxDeliveries :
        (i \in DOMAIN events /\ ~ClaimWaiting(i)) ~> (ClaimSettled(i) \/ ClaimWaiting(i))

\* an event processed inline, and one processed from the queue, have settled
C35_Witness ==
    \E i \in DOMAIN events :
        /\ events[i].status = "FAILED"
        /\ ~celery \/ (dispatched[i] = 1 /\ i \notin queue)

(* Claims on the scope of duplicate detection (SpecSig) *)

\* C36: duplicate detection is scoped by provider: a receive_event call that
\* returns an existing row instead of storing a new one was made for the
\* provider that row was stored for
C36_DuplicateSameProvider ==
    [][(/\ Len(rcv'.calls) > Len(rcv.calls)
        /\ rcv'.calls[Len(rcv'.calls)].op = "receive_event"
        /\ ~rcv'.raised
        /\ events' = events)
       => origin[rcv'.ret].provider = rcv'.calls[Len(rcv'.calls)].provider]_vars

(* Claims on the processing_lock scope (SpecLock) *)

\* the invocation of p has left the guarded block of processing_lock
ClaimLeftScope(p) ==
    procs[p].attempt = 2 \/ procs[p].pc \in {"pe_mark", "pe_fail"}

C39_FallbackLock ==
    [][\A p \in Procs :
         /\ (last' # last /\ last'.proc = p /\ last'.op = "acquire")
               => last'.ret /\ lk'[p].acquired
         /\ (last' # last /\ last'.proc = p /\ last'.op = "release" /\ lk[p].acquired)
               => last'.ret /\ ~lk'[p].acquired
         /\ (last' # last /\ last'.proc = p /\ last'.op = "release" /\ ~lk[p].acquired)
               => /\ ~last'.ret
                  /\ ~lk'[p].acquired
                  /\ \A q \in Procs \ {p} : lk'[q] = lk[q]]_vars

\* an acquire that returned True while the other object held the key, made
\* on an object whose release was refused before it ever acquired; the other
\* object has been released and acquired again
C39_Witness ==
    \E p \in Procs :
        /\ last.op = "acquire"
        /\ last.proc = p
        /\ last.ret
        /\ last.pre.how = "none"
        /\ lk[p].released = "not_acquired"
        /\ \A q \in Procs \ {p} : lk[q].acquired /\ lk[q].released = "db"

(* Claims on the two IdempotentCollectionUpdate classes (SpecTwin) *)

\* C40: the class of core_apps.collections.idempotency and the class of
\* core_apps.webhooks.idempotency return the same should_update and the same
\* get_update_fields result for every (current, proposed, allow_override)
C40_SameResults ==
    last.op = "idempotency" =>
        /\ last.collections.should_update = last.webhooks.should_update
        /\ last.collections.get_update_fields = last.webhooks.get_update_fields
        /\ last.webhooks.should_update = fn.result

\* both classes refuse to move a PROCESSING collection back to PENDING, and
\* both return None for the update fields
C40_Witness ==
    /\ last.op = "idempotency"
    /\ fn.cur = "PROCESSING"
    /\ fn.new = "PENDING"
    /\ ~fn.allow_override
    /\ ~last.collections.should_update
    /\ ~last.webhooks.should_update
    /\ last.webhooks.get_update_fields = PyNone

====
